---- MODULE Spec2Model ----
(***************************************************************************)
(* Model of mcp-defect-dojo: the DefectDojo HTTP adapter                    *)
(* (internal/defectdojo/client.go) and the MCP tool handlers registered by  *)
(* the three entry points (internal/server, pkg/mcpserver, cmd/mcp-server). *)
(*                                                                          *)
(* Text is modelled as a sequence of strings.  Data that the code parses or *)
(* compares (tool arguments, severities, numbers) is kept one character per *)
(* element; the literal pieces of a format string are single elements.      *)
(* fmt.Sprintf is the concatenation of its pieces.                          *)
(***************************************************************************)
EXTENDS Integers, Sequences, FiniteSets, TLC

VARIABLES cfg, pc, entry, tool, args, argsIsMap, call, sent, adapterCalls,
          outcome, adapterRet, result, slots, probe, srv

vars == <<cfg, pc, entry, tool, args, argsIsMap, call, sent, adapterCalls,
          outcome, adapterRet, result, slots, probe, srv>>

----------------------------------------------------------------------------
(* Bounds of the model                                                      *)

\* finding ids and test ids offered as arguments range over 1..MaxId
MaxId == 2
\* number of findings in the largest page the remote service returns
MaxResults == 2
\* number of tool invocations that may be in progress at the same time
MaxConcurrent == 2
\* number of requests a server reads from its standard input
MaxServed == 3

----------------------------------------------------------------------------
(* Text helpers                                                             *)

L(s) == <<s>>

Range(f) == { f[i] : i \in DOMAIN f }

\* sub occurs in text as a contiguous run of elements
Contains(text, sub) ==
    \E i \in 0..(Len(text) - Len(sub)) :
        \A j \in 1..Len(sub) : text[i + j] = sub[j]

StartsWith(text, pre) ==
    /\ Len(pre) <= Len(text)
    /\ \A j \in 1..Len(pre) : text[j] = pre[j]

DigitChars == <<"0", "1", "2", "3", "4", "5", "6", "7", "8", "9">>

IsDigit(c) == \E i \in 1..10 : DigitChars[i] = c

DigitVal(c) == (CHOOSE i \in 1..10 : DigitChars[i] = c) - 1

RECURSIVE NatDigits(_)
NatDigits(n) ==
    IF n < 10 THEN <<DigitChars[n + 1]>>
    ELSE NatDigits(n \div 10) \o <<DigitChars[(n % 10) + 1]>>

\* strconv.Itoa and the %d verb
Itoa(n) == IF n < 0 THEN <<"-">> \o NatDigits(-n) ELSE NatDigits(n)

RECURSIVE DigitsVal(_, _)
DigitsVal(s, acc) ==
    IF s = <<>> THEN acc
    ELSE DigitsVal(Tail(s), acc * 10 + DigitVal(Head(s)))

\* strconv.Atoi: optional sign, then one or more decimal digits
Atoi(s) ==
    LET signed == s # <<>> /\ Head(s) \in {"+", "-"}
        digits == IF signed THEN Tail(s) ELSE s
        ok     == digits # <<>> /\ \A i \in 1..Len(digits) : IsDigit(digits[i])
    IN  IF ~ok THEN [ok |-> FALSE, n |-> 0]
        ELSE [ok |-> TRUE,
              n  |-> IF signed /\ Head(s) = "-"
                     THEN -DigitsVal(digits, 0) ELSE DigitsVal(digits, 0)]

StrTrue == <<"t", "r", "u", "e">>
StrFalse == <<"f", "a", "l", "s", "e">>

\* strconv.FormatBool and the %t verb
FormatBool(b) == IF b THEN StrTrue ELSE StrFalse

\* strconv.ParseBool
ParseBool(s) ==
    IF s \in {<<"1">>, <<"t">>, <<"T">>, StrTrue,
              <<"T", "R", "U", "E">>, <<"T", "r", "u", "e">>}
    THEN [ok |-> TRUE, b |-> TRUE]
    ELSE IF s \in {<<"0">>, <<"f">>, <<"F">>, StrFalse,
                   <<"F", "A", "L", "S", "E">>, <<"F", "a", "l", "s", "e">>}
    THEN [ok |-> TRUE, b |-> FALSE]
    ELSE [ok |-> FALSE, b |-> FALSE]

----------------------------------------------------------------------------
(* Dynamically typed argument values (map[string]any)                       *)
(* A float64 is the rational n/d.                                           *)

Absent == [t |-> "absent", n |-> 0, d |-> 1, s |-> <<>>, b |-> FALSE]
Float(n, d) == [t |-> "float64", n |-> n, d |-> d, s |-> <<>>, b |-> FALSE]
Num(n) == Float(n, 1)
GoInt(n) == [t |-> "int", n |-> n, d |-> 1, s |-> <<>>, b |-> FALSE]
Str(s) == [t |-> "string", n |-> 0, d |-> 1, s |-> s, b |-> FALSE]
Bool(b) == [t |-> "bool", n |-> 0, d |-> 1, s |-> <<>>, b |-> b]

\* a float64 whose magnitude is beyond the range of int, such as 1e19; the
\* denominator 0 marks it and the numerator gives its sign
Huge(sign) == Float(sign, 0)

\* the conversion int(f) of a float64: truncation toward zero
Trunc(v) == IF v.n >= 0 THEN v.n \div v.d ELSE -((-v.n) \div v.d)

NoArgs ==
    [finding_id |-> Absent, limit |-> Absent, offset |-> Absent,
     active_only |-> Absent, severity |-> Absent, verified |-> Absent,
     test |-> Absent, justification |-> Absent, notes |-> Absent]

----------------------------------------------------------------------------
(* pkg/types                                                                *)

SeverityInfo == <<"I", "n", "f", "o">>
SeverityLow == <<"L", "o", "w">>
SeverityMedium == <<"M", "e", "d", "i", "u", "m">>
SeverityHigh == <<"H", "i", "g", "h">>
SeverityCritical == <<"C", "r", "i", "t", "i", "c", "a", "l">>

ValidSeverities ==
    <<SeverityInfo, SeverityLow, SeverityMedium, SeverityHigh, SeverityCritical>>

\* a version that lets the empty string through
IsValidSeverity_AcceptsEmpty(severity) ==
    \/ severity = <<>>
    \/ \E i \in 1..Len(ValidSeverities) : severity = ValidSeverities[i]

IsValidSeverity(severity) ==
    \E i \in 1..Len(ValidSeverities) : severity = ValidSeverities[i]

\* the zero value of types.Finding
ZeroFinding ==
    [ID |-> 0, Title |-> <<>>, Severity |-> <<>>, Description |-> <<>>,
     Active |-> FALSE, Verified |-> FALSE, FalseP |-> FALSE, Test |-> 0,
     Created |-> <<>>, Modified |-> <<>>]

\* the zero value of types.FindingsResponse; Next and Previous are *string
ZeroFindingsResponse ==
    [Count |-> 0, HasNext |-> FALSE, HasPrevious |-> FALSE, Results |-> <<>>]

\* the zero value of types.FalsePositiveResponse
ZeroFalsePositiveResponse ==
    [ID |-> 0, FalseP |-> FALSE, Justification |-> <<>>, Notes |-> <<>>,
     Message |-> <<>>]

\* the zero value of types.FindingsFilter; Verified and Test are pointers
ZeroFilter ==
    [Limit |-> 0, ActiveOnly |-> FALSE, Severity |-> <<>>,
     HasVerified |-> FALSE, Verified |-> FALSE,
     HasTest |-> FALSE, Test |-> 0, Offset |-> 0]

ZeroFalsePositiveRequest ==
    [IsFalsePositive |-> FALSE, Justification |-> <<>>, Notes |-> <<>>]

----------------------------------------------------------------------------
(* internal/config                                                          *)

DefaultBaseURL == <<"http://localhost:8080">>

\* a base URL holding an ASCII control character, which net/url rejects
BadBaseURL == <<"http://local", "\n", "host">>

DefaultConfig ==
    [BaseURL |-> DefaultBaseURL, APIKey |-> <<>>, APIVersion |-> <<"v2">>,
     RequestTimeout |-> 30]

GetAPIBasePath(c) == L("/api/") \o c.APIVersion

\* the Server part of config.DefaultConfig()
DefaultServerConfig ==
    [Name |-> <<"mcp-defect-dojo-server">>, Version |-> <<"0.2.1">>,
     Instructions |-> <<"MCP server for DefectDojo integration. Provides tools to query vulnerability findings and manage security data.">>,
     Host |-> <<"localhost">>, Port |-> 8000, Transport |-> <<"stdio">>]

\* the Logging part of config.DefaultConfig()
DefaultLoggingConfig == [Level |-> <<"info">>, Format |-> <<"text">>]

\* os.Getenv: the value of the variable, empty when it is not set
Getenv(env, key) == env[key]

\* a version that also takes the server name from the environment
Load_NameFromEnv(env) ==
    [DefectDojo |->
         [DefaultConfig EXCEPT
              !.BaseURL = IF Getenv(env, "DEFECTDOJO_URL") # <<>>
                          THEN Getenv(env, "DEFECTDOJO_URL") ELSE @,
              !.APIKey = IF Getenv(env, "DEFECTDOJO_API_KEY") # <<>>
                         THEN Getenv(env, "DEFECTDOJO_API_KEY") ELSE @,
              !.APIVersion = IF Getenv(env, "DEFECTDOJO_API_VERSION") # <<>>
                             THEN Getenv(env, "DEFECTDOJO_API_VERSION") ELSE @],
     Server |->
         [DefaultServerConfig EXCEPT
              !.Name = IF Getenv(env, "MCP_SERVER_NAME") # <<>>
                       THEN Getenv(env, "MCP_SERVER_NAME") ELSE @],
     Logging |->
         [DefaultLoggingConfig EXCEPT
              !.Level = IF Getenv(env, "LOG_LEVEL") # <<>>
                        THEN Getenv(env, "LOG_LEVEL") ELSE @,
              !.Format = IF Getenv(env, "LOG_FORMAT") # <<>>
                         THEN Getenv(env, "LOG_FORMAT") ELSE @]]

\* config.Load: the defaults, with the environment's overrides
Load(env) ==
    [DefectDojo |->
         [DefaultConfig EXCEPT
              !.BaseURL = IF Getenv(env, "DEFECTDOJO_URL") # <<>>
                          THEN Getenv(env, "DEFECTDOJO_URL") ELSE @,
              !.APIKey = IF Getenv(env, "DEFECTDOJO_API_KEY") # <<>>
                         THEN Getenv(env, "DEFECTDOJO_API_KEY") ELSE @,
              !.APIVersion = IF Getenv(env, "DEFECTDOJO_API_VERSION") # <<>>
                             THEN Getenv(env, "DEFECTDOJO_API_VERSION") ELSE @],
     Server |-> DefaultServerConfig,
     Logging |->
         [DefaultLoggingConfig EXCEPT
              !.Level = IF Getenv(env, "LOG_LEVEL") # <<>>
                        THEN Getenv(env, "LOG_LEVEL") ELSE @,
              !.Format = IF Getenv(env, "LOG_FORMAT") # <<>>
                         THEN Getenv(env, "LOG_FORMAT") ELSE @]]

----------------------------------------------------------------------------
(* internal/defectdojo: the HTTP adapter                                    *)
(* Each operation is split where it blocks in httpClient.Do: the part that  *)
(* builds the request, and the part that turns the outcome of the exchange  *)
(* into the operation's return value.                                       *)

StatusOK == 200

AppJSON == <<"application/json">>

NoPayload == [false_p |-> FALSE, justification |-> <<>>, hasNotes |-> FALSE, notes |-> <<>>]

\* what an adapter operation returns: (result, error) or (healthy, message)
RetErr(text) ==
    [hasErr |-> TRUE, err |-> text, hasVal |-> FALSE,
     findings |-> ZeroFindingsResponse, finding |-> ZeroFinding,
     fp |-> ZeroFalsePositiveResponse, healthy |-> FALSE, message |-> <<>>]

RetFindings(v) ==
    [hasErr |-> FALSE, err |-> <<>>, hasVal |-> TRUE,
     findings |-> v, finding |-> ZeroFinding,
     fp |-> ZeroFalsePositiveResponse, healthy |-> FALSE, message |-> <<>>]

RetFinding(v) ==
    [hasErr |-> FALSE, err |-> <<>>, hasVal |-> TRUE,
     findings |-> ZeroFindingsResponse, finding |-> v,
     fp |-> ZeroFalsePositiveResponse, healthy |-> FALSE, message |-> <<>>]

RetFalsePositive(v) ==
    [hasErr |-> FALSE, err |-> <<>>, hasVal |-> TRUE,
     findings |-> ZeroFindingsResponse, finding |-> ZeroFinding,
     fp |-> v, healthy |-> FALSE, message |-> <<>>]

RetHealth(h, m) ==
    [hasErr |-> FALSE, err |-> <<>>, hasVal |-> FALSE,
     findings |-> ZeroFindingsResponse, finding |-> ZeroFinding,
     fp |-> ZeroFalsePositiveResponse, healthy |-> h, message |-> m]

NoRet == RetHealth(FALSE, <<>>)

\* a version that writes the Authorization header whether or not a key is
\* configured
setHeaders_AlwaysAuth(c) ==
    ("Accept" :> AppJSON) @@ ("Content-Type" :> AppJSON)
    @@ ("Authorization" :> (L("Token ") \o c.APIKey))

\* setHeaders
setHeaders(c) ==
    IF c.APIKey # <<>>
    THEN ("Accept" :> AppJSON) @@ ("Content-Type" :> AppJSON)
         @@ ("Authorization" :> (L("Token ") \o c.APIKey))
    ELSE ("Accept" :> AppJSON) @@ ("Content-Type" :> AppJSON)

\* http.NewRequestWithContext parses the URL; net/url rejects a URL that
\* holds an ASCII control character
CtlChars == {"\n", "\t"}

NewRequestOK(url) == \A i \in 1..Len(url) : url[i] \notin CtlChars

NewRequestErr(url) ==
    L("parse \"") \o url \o L("\": net/url: invalid control character in URL")

\* url.QueryEscape, on the characters the model's inputs hold
EscapeChar(c) ==
    IF c = " " THEN <<"+">>
    ELSE IF c = "&" THEN <<"%", "2", "6">>
    ELSE <<c>>

RECURSIVE QueryEscape(_)
QueryEscape(s) ==
    IF s = <<>> THEN <<>> ELSE EscapeChar(Head(s)) \o QueryEscape(Tail(s))

\* url.Values.Encode writes the keys in sorted order
QueryKeyOrder == <<"active", "limit", "offset", "severity", "test", "verified">>

Encode(params) ==
    LET ks == SelectSeq(QueryKeyOrder, LAMBDA k : k \in DOMAIN params)
    IN  [i \in 1..Len(ks) |-> <<ks[i], QueryEscape(params[ks[i]])>>]

\* parameters that write active and verified whether or not they are set
GetFindingsParams_AlwaysFlags(filter) ==
    LET p0 == ("limit" :> Itoa(filter.Limit)) @@ ("offset" :> Itoa(filter.Offset))
        p1 == p0 @@ ("active" :> FormatBool(filter.ActiveOnly))
        p2 == IF filter.Severity # <<>>
              THEN p1 @@ ("severity" :> filter.Severity) ELSE p1
        p3 == p2 @@ ("verified" :> FormatBool(filter.Verified))
        p4 == IF filter.HasTest THEN p3 @@ ("test" :> Itoa(filter.Test)) ELSE p3
    IN  p4

\* GetFindings: the url.Values built from the filter
GetFindingsParams(filter) ==
    LET p0 == ("limit" :> Itoa(filter.Limit)) @@ ("offset" :> Itoa(filter.Offset))
        p1 == IF filter.ActiveOnly THEN p0 @@ ("active" :> StrTrue) ELSE p0
        p2 == IF filter.Severity # <<>>
              THEN p1 @@ ("severity" :> filter.Severity) ELSE p1
        p3 == IF filter.HasVerified
              THEN p2 @@ ("verified" :> FormatBool(filter.Verified)) ELSE p2
        p4 == IF filter.HasTest THEN p3 @@ ("test" :> Itoa(filter.Test)) ELSE p3
    IN  p4

HTTPRequest(method, url, query, c, hasBody, body) ==
    [method |-> method, url |-> url, query |-> query, headers |-> setHeaders(c),
     hasBody |-> hasBody, body |-> body]

NoRequest ==
    [method |-> "", url |-> <<>>, query |-> <<>>,
     headers |-> ("Accept" :> AppJSON) @@ ("Content-Type" :> AppJSON),
     hasBody |-> FALSE, body |-> NoPayload]

\* the request part of an operation: either the request handed to
\* httpClient.Do, or the early return
Built(req) == [ok |-> TRUE, req |-> req, ret |-> NoRet]
Early(ret) == [ok |-> FALSE, req |-> NoRequest, ret |-> ret]

GetFindingsRequest(c, filter) ==
    LET apiURL == c.BaseURL \o GetAPIBasePath(c) \o L("/findings/")
    IN  IF ~NewRequestOK(apiURL)
        THEN Early(RetErr(L("creating request: ") \o NewRequestErr(apiURL)))
        ELSE Built(HTTPRequest("GET", apiURL, Encode(GetFindingsParams(filter)),
                               c, FALSE, NoPayload))

FindingURL(c, findingID) ==
    c.BaseURL \o GetAPIBasePath(c) \o L("/findings/") \o Itoa(findingID) \o L("/")

GetFindingDetailRequest(c, findingID) ==
    LET apiURL == FindingURL(c, findingID)
    IN  IF ~NewRequestOK(apiURL)
        THEN Early(RetErr(L("creating request: ") \o NewRequestErr(apiURL)))
        ELSE Built(HTTPRequest("GET", apiURL, <<>>, c, FALSE, NoPayload))

\* a payload that takes the flag from the request
MarkFalsePositivePayload_FlagFromRequest(request) ==
    [false_p |-> request.IsFalsePositive, justification |-> request.Justification,
     hasNotes |-> request.Notes # <<>>,
     notes |-> IF request.Notes # <<>> THEN request.Notes ELSE <<>>]

\* MarkFalsePositive: the payload map that is marshalled into the body
MarkFalsePositivePayload(request) ==
    [false_p |-> TRUE, justification |-> request.Justification,
     hasNotes |-> request.Notes # <<>>,
     notes |-> IF request.Notes # <<>> THEN request.Notes ELSE <<>>]

MarkFalsePositiveRequest(c, findingID, request) ==
    LET apiURL == FindingURL(c, findingID)
    IN  IF ~NewRequestOK(apiURL)
        THEN Early(RetErr(L("creating request: ") \o NewRequestErr(apiURL)))
        ELSE Built(HTTPRequest("PATCH", apiURL, <<>>, c, TRUE,
                               MarkFalsePositivePayload(request)))

HealthCheckRequest(c) ==
    LET apiURL == c.BaseURL \o GetAPIBasePath(c) \o L("/")
    IN  IF ~NewRequestOK(apiURL)
        THEN Early(RetHealth(FALSE,
                 L("Failed to create request: ") \o NewRequestErr(apiURL)))
        ELSE Built(HTTPRequest("GET", apiURL, <<>>, c, FALSE, NoPayload))

\* the error httpClient.Do returns: a *url.Error naming the method, the URL
\* and the cause
DoErr(req, out) ==
    L(IF req.method = "GET" THEN "Get" ELSE "Patch") \o L(" \"") \o req.url
    \o L("\": ") \o L(out.reason)

APIStatusErr(out) ==
    RetErr(L("API request failed with status ") \o Itoa(out.status) \o L(": ")
           \o out.body.raw)

GetFindingsFinish(req, out) ==
    IF out.kind = "transport"
    THEN RetErr(L("HTTP request failed: ") \o DoErr(req, out))
    ELSE IF out.status # StatusOK THEN APIStatusErr(out)
    ELSE IF ~out.body.decodes
    THEN RetErr(L("decoding response: ") \o out.body.decodeErr)
    ELSE RetFindings(out.body.findings)

\* a status check that lets every status below 300 through
GetFindingDetailFinish_Any2xx(req, out) ==
    IF out.kind = "transport"
    THEN RetErr(L("HTTP request failed: ") \o DoErr(req, out))
    ELSE IF out.status >= 300 THEN APIStatusErr(out)
    ELSE IF ~out.body.decodes
    THEN RetErr(L("decoding response: ") \o out.body.decodeErr)
    ELSE RetFinding(out.body.finding)

GetFindingDetailFinish(req, out) ==
    IF out.kind = "transport"
    THEN RetErr(L("HTTP request failed: ") \o DoErr(req, out))
    ELSE IF out.status # StatusOK THEN APIStatusErr(out)
    ELSE IF ~out.body.decodes
    THEN RetErr(L("decoding response: ") \o out.body.decodeErr)
    ELSE RetFinding(out.body.finding)

\* a version that drops the error of httpClient.Do
MarkFalsePositiveFinish_IgnoresDoErr(req, out) ==
    IF out.kind = "transport" \/ ~out.body.decodes
    THEN RetFalsePositive(
             [ZeroFalsePositiveResponse EXCEPT
                  !.Message = L("Finding successfully marked as false positive")])
    ELSE IF out.status # StatusOK THEN APIStatusErr(out)
    ELSE RetFalsePositive(
             [ID |-> out.body.finding.ID, FalseP |-> out.body.finding.FalseP,
              Justification |-> <<>>, Notes |-> <<>>,
              Message |-> L("Finding successfully marked as false positive")])

\* a version that reports the flag as set whatever the response holds
MarkFalsePositiveFinish_FlagAssumed(req, out) ==
    IF out.kind = "transport"
    THEN RetErr(L("HTTP request failed: ") \o DoErr(req, out))
    ELSE IF out.status # StatusOK THEN APIStatusErr(out)
    ELSE IF ~out.body.decodes
    THEN RetErr(L("decoding response: ") \o out.body.decodeErr)
    ELSE RetFalsePositive(
             [ID |-> out.body.finding.ID, FalseP |-> TRUE,
              Justification |-> <<>>, Notes |-> <<>>,
              Message |-> L("Finding successfully marked as false positive")])

MarkFalsePositiveFinish(req, out) ==
    IF out.kind = "transport"
    THEN RetErr(L("HTTP request failed: ") \o DoErr(req, out))
    ELSE IF out.status # StatusOK THEN APIStatusErr(out)
    ELSE IF ~out.body.decodes
    THEN RetErr(L("decoding response: ") \o out.body.decodeErr)
    ELSE RetFalsePositive(
             [ID |-> out.body.finding.ID, FalseP |-> out.body.finding.FalseP,
              Justification |-> <<>>, Notes |-> <<>>,
              Message |-> L("Finding successfully marked as false positive")])

\* a version that reports a non-200 status without the body
HealthCheckFinish_NoBody(c, req, out) ==
    IF out.kind = "transport"
    THEN RetHealth(FALSE, L("Connection failed to ") \o c.BaseURL \o L(": ")
                          \o DoErr(req, out))
    ELSE IF out.status = StatusOK
    THEN RetHealth(TRUE, L("Successfully connected to DefectDojo at ")
                         \o c.BaseURL \o L("\nAPI Version: ") \o c.APIVersion
                         \o L("\nStatus Code: ") \o Itoa(out.status))
    ELSE RetHealth(FALSE, L("DefectDojo responded with status ")
                          \o Itoa(out.status))

HealthCheckFinish(c, req, out) ==
    IF out.kind = "transport"
    THEN RetHealth(FALSE, L("Connection failed to ") \o c.BaseURL \o L(": ")
                          \o DoErr(req, out))
    ELSE IF out.status = StatusOK
    THEN RetHealth(TRUE, L("Successfully connected to DefectDojo at ")
                         \o c.BaseURL \o L("\nAPI Version: ") \o c.APIVersion
                         \o L("\nStatus Code: ") \o Itoa(out.status))
    ELSE RetHealth(FALSE, L("DefectDojo responded with status ")
                          \o Itoa(out.status) \o L(": ") \o out.body.raw)

----------------------------------------------------------------------------
(* What a tool handler hands back to the framework                          *)

\* mcp.NewToolResultText: a result with IsError = false
NewToolResultText(text) == [kind |-> "text", text |-> text]

\* mcp.NewToolResultError: a result with IsError = true
NewToolResultError(text) == [kind |-> "toolError", text |-> text]

\* return nil, err: no result, a Go error for the framework
ReturnErr(text) == [kind |-> "rawError", text |-> text]

NoResult == [kind |-> "none", text |-> <<>>]

\* the adapter call a handler makes
NoCall ==
    [op |-> "none", filter |-> ZeroFilter, findingID |-> 0,
     request |-> ZeroFalsePositiveRequest]

CallGetFindings(filter) == [NoCall EXCEPT !.op = "GetFindings", !.filter = filter]

CallGetFindingDetail(id) ==
    [NoCall EXCEPT !.op = "GetFindingDetail", !.findingID = id]

CallMarkFalsePositive(id, request) ==
    [NoCall EXCEPT !.op = "MarkFalsePositive", !.findingID = id,
                   !.request = request]

CallHealthCheck == [NoCall EXCEPT !.op = "HealthCheck"]

\* the part of a handler before its adapter call: it either returns at once
\* or calls the adapter
Returns(r) == [done |-> TRUE, result |-> r, call |-> NoCall]
Calls(c) == [done |-> FALSE, result |-> NoResult, call |-> c]

----------------------------------------------------------------------------
(* mcp-go's typed accessors of CallToolRequest, as the handlers of          *)
(* pkg/mcpserver and cmd/mcp-server use them                                *)

\* GetArguments: the argument bag, or an empty one when it is not a map
GetArguments(a, isMap) == IF isMap THEN a ELSE NoArgs

GetInt(a, key, default) ==
    LET v == a[key]
    IN  CASE v.t = "int" -> v.n
          [] v.t = "float64" -> Trunc(v)
          [] v.t = "string" -> IF Atoi(v.s).ok THEN Atoi(v.s).n ELSE default
          [] OTHER -> default

GetBool(a, key, default) ==
    LET v == a[key]
    IN  CASE v.t = "bool" -> v.b
          [] v.t = "string" -> IF ParseBool(v.s).ok THEN ParseBool(v.s).b ELSE default
          [] v.t = "int" -> v.n # 0
          [] v.t = "float64" -> v.n # 0
          [] OTHER -> default

GetString(a, key, default) ==
    LET v == a[key] IN IF v.t = "string" THEN v.s ELSE default

RequireInt(a, key) ==
    LET v == a[key]
    IN  CASE v.t = "absent" ->
               [ok |-> FALSE, n |-> 0,
                err |-> L("required argument \"") \o L(key) \o L("\" not found")]
          [] v.t = "int" -> [ok |-> TRUE, n |-> v.n, err |-> <<>>]
          [] v.t = "float64" -> [ok |-> TRUE, n |-> Trunc(v), err |-> <<>>]
          [] v.t = "string" ->
               IF Atoi(v.s).ok
               THEN [ok |-> TRUE, n |-> Atoi(v.s).n, err |-> <<>>]
               ELSE [ok |-> FALSE, n |-> 0,
                     err |-> L("argument \"") \o L(key)
                             \o L("\" cannot be converted to int")]
          [] OTHER ->
               [ok |-> FALSE, n |-> 0,
                err |-> L("argument \"") \o L(key) \o L("\" is not an int")]

RequireString(a, key) ==
    LET v == a[key]
    IN  CASE v.t = "absent" ->
               [ok |-> FALSE, s |-> <<>>,
                err |-> L("required argument \"") \o L(key) \o L("\" not found")]
          [] v.t = "string" -> [ok |-> TRUE, s |-> v.s, err |-> <<>>]
          [] OTHER ->
               [ok |-> FALSE, s |-> <<>>,
                err |-> L("argument \"") \o L(key) \o L("\" is not a string")]

----------------------------------------------------------------------------
(* internal/server: the handlers of MCPServer                               *)

\* the number of findings formatFindingsResponse lists
DisplayLimit == 10

parseFilterFromParams(arguments) ==
    LET f0 == [ZeroFilter EXCEPT !.Limit = 20, !.ActiveOnly = TRUE, !.Offset = 0]
        f1 == IF arguments.limit.t = "float64"
              THEN [f0 EXCEPT !.Limit = Trunc(arguments.limit)] ELSE f0
        f2 == IF arguments.offset.t = "float64"
              THEN [f1 EXCEPT !.Offset = Trunc(arguments.offset)] ELSE f1
        f3 == IF arguments.active_only.t = "bool"
              THEN [f2 EXCEPT !.ActiveOnly = arguments.active_only.b] ELSE f2
        f4 == IF arguments.severity.t = "string"
                 /\ IsValidSeverity(arguments.severity.s)
              THEN [f3 EXCEPT !.Severity = arguments.severity.s] ELSE f3
        f5 == IF arguments.verified.t = "bool"
              THEN [f4 EXCEPT !.HasVerified = TRUE,
                              !.Verified = arguments.verified.b] ELSE f4
        f6 == IF arguments.test.t = "float64"
              THEN [f5 EXCEPT !.HasTest = TRUE, !.Test = Trunc(arguments.test)]
              ELSE f5
    IN  f6

extractFindingID(arguments) ==
    LET v == arguments.finding_id
    IN  CASE v.t = "float64" -> IF v.n > 0 THEN Trunc(v) ELSE 0
          [] v.t = "string" ->
               IF Atoi(v.s).ok /\ Atoi(v.s).n > 0 THEN Atoi(v.s).n ELSE 0
          [] v.t = "int" -> IF v.n > 0 THEN v.n ELSE 0
          [] OTHER -> 0

\* the least and the greatest int, on the narrower integers of the model
MaxInt == 2147483647
MinInt == -MaxInt

\* what extractFindingID may return.  The conversion int(val) of a float64
\* beyond the range of int yields a value that depends on the build: the
\* least int where the processor reports the overflow that way, the
\* greatest int where it saturates.
extractFindingIDOutcomes(arguments) ==
    LET v == arguments.finding_id
    IN  IF v.t = "float64" /\ v.d = 0
        THEN IF v.n > 0 THEN {MinInt, MaxInt} ELSE {0}
        ELSE {extractFindingID(arguments)}

\* one finding of formatFindingsResponse's loop
formatFindingEntry(finding) ==
    Itoa(finding.ID) \o L(". [") \o finding.Severity \o L("] ") \o finding.Title
    \o (IF finding.Verified THEN L(" (Verified)") ELSE <<>>) \o L("\n")
    \o L("   Status: ") \o L(IF finding.Active THEN "Active" ELSE "Inactive")
    \o L(" | Test: ") \o Itoa(finding.Test) \o L("\n")
    \o L("   ") \o finding.Description \o L("\n\n")

RECURSIVE formatFindingEntries(_, _)
formatFindingEntries(results, i) ==
    IF i > Len(results) THEN <<>>
    ELSE IF i - 1 >= DisplayLimit
    THEN L("... and ") \o Itoa(Len(results) - DisplayLimit)
         \o L(" more findings\n")
    ELSE formatFindingEntry(results[i]) \o formatFindingEntries(results, i + 1)

formatFindingsResponse(findings) ==
    IF findings.Count = 0
    THEN L("No findings found matching the specified criteria.")
    ELSE L("Found ") \o Itoa(findings.Count) \o L(" findings (showing first ")
         \o Itoa(Len(findings.Results)) \o L("):\n\n")
         \o formatFindingEntries(findings.Results, 1)
         \o (IF findings.HasNext
             THEN L("Note: More results available. Use 'offset' parameter to paginate.\n")
             ELSE <<>>)

formatFindingDetail(finding) ==
    L("Finding #") \o Itoa(finding.ID) \o L(" Details:\n\n")
    \o L("Title: ") \o finding.Title \o L("\n")
    \o L("Severity: ") \o finding.Severity \o L("\n")
    \o L("Active: ") \o FormatBool(finding.Active) \o L("\n")
    \o L("Verified: ") \o FormatBool(finding.Verified) \o L("\n")
    \o L("Test ID: ") \o Itoa(finding.Test) \o L("\n")
    \o (IF finding.Created # <<>>
        THEN L("Created: ") \o finding.Created \o L("\n") ELSE <<>>)
    \o (IF finding.Modified # <<>>
        THEN L("Modified: ") \o finding.Modified \o L("\n") ELSE <<>>)
    \o L("\nDescription:\n") \o finding.Description \o L("\n")

FindingIDRequired ==
    L("Error: finding_id parameter is required and must be a positive integer")

DefaultJustification == <<"Marked as false positive via MCP tool">>

\* the request registerMarkFalsePositiveTool's handler builds
internalFalsePositiveRequest(a) ==
    LET r0 == [IsFalsePositive |-> TRUE, Justification |-> DefaultJustification,
               Notes |-> <<>>]
        r1 == IF a.justification.t = "string" /\ a.justification.s # <<>>
              THEN [r0 EXCEPT !.Justification = a.justification.s] ELSE r0
        r2 == IF a.notes.t = "string" /\ a.notes.s # <<>>
              THEN [r1 EXCEPT !.Notes = a.notes.s] ELSE r1
    IN  r2

internalGetFindingsStart(a, isMap) ==
    Calls(CallGetFindings(parseFilterFromParams(GetArguments(a, isMap))))

internalGetFindingsFinish(c, ret) ==
    IF ret.hasErr
    THEN NewToolResultError(L("Error retrieving findings: ") \o ret.err)
    ELSE NewToolResultText(formatFindingsResponse(ret.findings))

internalGetFindingDetailStart(a, isMap) ==
    LET findingID == extractFindingID(GetArguments(a, isMap))
    IN  IF findingID = 0 THEN Returns(NewToolResultError(FindingIDRequired))
        ELSE Calls(CallGetFindingDetail(findingID))

\* a version whose error text leaves the finding id out
internalGetFindingDetailFinish_NoId(c, ret) ==
    IF ret.hasErr
    THEN NewToolResultError(L("Error retrieving finding: ") \o ret.err)
    ELSE NewToolResultText(formatFindingDetail(ret.finding))

internalGetFindingDetailFinish(c, ret) ==
    IF ret.hasErr
    THEN NewToolResultError(L("Error retrieving finding ") \o Itoa(c.findingID)
                            \o L(": ") \o ret.err)
    ELSE NewToolResultText(formatFindingDetail(ret.finding))

internalMarkFalsePositiveStart(a, isMap) ==
    IF ~isMap THEN Returns(NewToolResultError(L("Error: Invalid arguments")))
    ELSE LET findingID == extractFindingID(a)
         IN  IF findingID = 0 THEN Returns(NewToolResultError(FindingIDRequired))
             ELSE Calls(CallMarkFalsePositive(findingID,
                                              internalFalsePositiveRequest(a)))

internalMarkFalsePositiveFinish(c, ret) ==
    IF ret.hasErr
    THEN NewToolResultError(L("Error marking finding ") \o Itoa(c.findingID)
                            \o L(" as false positive: ") \o ret.err)
    ELSE NewToolResultText(
             L("Successfully marked finding ") \o Itoa(c.findingID)
             \o L(" as false positive")
             \o (IF c.request.Justification # <<>>
                 THEN L("\nJustification: ") \o c.request.Justification
                 ELSE <<>>))

internalHealthCheckStart(a, isMap) == Calls(CallHealthCheck)

internalHealthCheckFinish(c, ret) ==
    IF ~ret.healthy
    THEN NewToolResultError(L("DefectDojo health check failed: ") \o ret.message)
    ELSE NewToolResultText(L("DefectDojo health check passed successfully"))

----------------------------------------------------------------------------
(* pkg/mcpserver and cmd/mcp-server: the handlers addDefectDojoTools        *)
(* registers.  The two files format a success the same way, so the          *)
(* formatting operators are shared; the status emoji of the health text is  *)
(* left out of the literals.                                                *)

\* one finding of the list handler's loop; i is the loop index
listFindingEntry(i, finding) ==
    Itoa(i + 1) \o L(". [") \o finding.Severity \o L("] ") \o finding.Title
    \o L(" (ID: ") \o Itoa(finding.ID) \o L(")\n")
    \o L("   Active: ") \o FormatBool(finding.Active)
    \o L(", Verified: ") \o FormatBool(finding.Verified)
    \o L(", False Positive: ") \o FormatBool(finding.FalseP) \o L("\n")
    \o (IF finding.Description # <<>>
        THEN L("   Description: ") \o finding.Description \o L("\n") ELSE <<>>)
    \o L("\n")

RECURSIVE listFindingEntries(_, _)
listFindingEntries(results, i) ==
    IF i >= Len(results) THEN <<>>
    ELSE listFindingEntry(i, results[i + 1]) \o listFindingEntries(results, i + 1)

listFindingsText(response) ==
    L("Found ") \o Itoa(response.Count) \o L(" findings (showing ")
    \o Itoa(Len(response.Results)) \o L("):\n\n")
    \o listFindingEntries(response.Results, 0)

findingDetailText(finding) ==
    L("Finding Details (ID: ") \o Itoa(finding.ID) \o L("):\n\n")
    \o L("Title: ") \o finding.Title \o L("\n")
    \o L("Severity: ") \o finding.Severity \o L("\n")
    \o L("Active: ") \o FormatBool(finding.Active) \o L("\n")
    \o L("Verified: ") \o FormatBool(finding.Verified) \o L("\n")
    \o L("False Positive: ") \o FormatBool(finding.FalseP) \o L("\n")
    \o L("Test ID: ") \o Itoa(finding.Test) \o L("\n")
    \o (IF finding.Created # <<>>
        THEN L("Created: ") \o finding.Created \o L("\n") ELSE <<>>)
    \o (IF finding.Modified # <<>>
        THEN L("Modified: ") \o finding.Modified \o L("\n") ELSE <<>>)
    \o (IF finding.Description # <<>>
        THEN L("\nDescription:\n") \o finding.Description \o L("\n") ELSE <<>>)

falsePositiveText(response) ==
    L("Successfully marked finding ") \o Itoa(response.ID)
    \o L(" as false positive:\n\n")
    \o L("False Positive: ") \o FormatBool(response.FalseP) \o L("\n")
    \o L("Justification: ") \o response.Justification \o L("\n")
    \o (IF response.Notes # <<>>
        THEN L("Notes: ") \o response.Notes \o L("\n") ELSE <<>>)
    \o (IF response.Message # <<>>
        THEN L("Message: ") \o response.Message \o L("\n") ELSE <<>>)

\* a version that takes the default limit of internal/server
toolFindingsFilter_Limit20(a) ==
    LET f0 == [ZeroFilter EXCEPT !.Limit = GetInt(a, "limit", 20),
                                 !.Offset = GetInt(a, "offset", 0),
                                 !.ActiveOnly = GetBool(a, "active_only", TRUE),
                                 !.Severity = GetString(a, "severity", <<>>)]
        test == GetInt(a, "test", 0)
    IN  IF test # 0 THEN [f0 EXCEPT !.HasTest = TRUE, !.Test = test] ELSE f0

\* the filter the list handler of both files builds from the request
toolFindingsFilter(a) ==
    LET f0 == [ZeroFilter EXCEPT !.Limit = GetInt(a, "limit", 10),
                                 !.Offset = GetInt(a, "offset", 0),
                                 !.ActiveOnly = GetBool(a, "active_only", TRUE),
                                 !.Severity = GetString(a, "severity", <<>>)]
        test == GetInt(a, "test", 0)
    IN  IF test # 0 THEN [f0 EXCEPT !.HasTest = TRUE, !.Test = test] ELSE f0

HealthyText == <<"DefectDojo Health Check: HEALTHY\n\n">>

(* pkg/mcpserver *)

pkgHealthCheckStart(a, isMap) == Calls(CallHealthCheck)

pkgHealthCheckFinish(c, ret) ==
    IF ~ret.healthy
    THEN ReturnErr(L("DefectDojo Health Check failed: ") \o ret.message)
    ELSE NewToolResultText(HealthyText \o ret.message)

pkgGetFindingsStart(a, isMap) ==
    Calls(CallGetFindings(toolFindingsFilter(GetArguments(a, isMap))))

pkgGetFindingsFinish(c, ret) ==
    IF ret.hasErr THEN ReturnErr(L("error retrieving findings: ") \o ret.err)
    ELSE NewToolResultText(listFindingsText(ret.findings))

pkgGetFindingDetailStart(a, isMap) ==
    LET id == RequireInt(GetArguments(a, isMap), "finding_id")
    IN  IF ~id.ok THEN Returns(ReturnErr(L("invalid finding_id: ") \o id.err))
        ELSE Calls(CallGetFindingDetail(id.n))

pkgGetFindingDetailFinish(c, ret) ==
    IF ret.hasErr
    THEN ReturnErr(L("error retrieving finding ") \o Itoa(c.findingID)
                   \o L(": ") \o ret.err)
    ELSE NewToolResultText(findingDetailText(ret.finding))

pkgMarkFalsePositiveStart(a, isMap) ==
    LET id == RequireInt(GetArguments(a, isMap), "finding_id")
        justification == RequireString(GetArguments(a, isMap), "justification")
        notes == GetString(GetArguments(a, isMap), "notes", <<>>)
    IN  IF ~id.ok THEN Returns(ReturnErr(L("invalid finding_id: ") \o id.err))
        ELSE IF ~justification.ok
        THEN Returns(ReturnErr(L("invalid justification: ") \o justification.err))
        ELSE Calls(CallMarkFalsePositive(id.n,
                 [IsFalsePositive |-> TRUE, Justification |-> justification.s,
                  Notes |-> notes]))

pkgMarkFalsePositiveFinish(c, ret) ==
    IF ret.hasErr
    THEN ReturnErr(L("error marking finding ") \o Itoa(c.findingID)
                   \o L(" as false positive: ") \o ret.err)
    ELSE NewToolResultText(falsePositiveText(ret.fp))

(* cmd/mcp-server *)

cmdHealthCheckStart(a, isMap) == Calls(CallHealthCheck)

cmdHealthCheckFinish(c, ret) ==
    NewToolResultText(
        L("DefectDojo Health Check: ")
        \o L(IF ret.healthy THEN "HEALTHY" ELSE "UNHEALTHY")
        \o L("\n\n") \o ret.message)

cmdGetFindingsStart(a, isMap) ==
    Calls(CallGetFindings(toolFindingsFilter(GetArguments(a, isMap))))

cmdGetFindingsFinish(c, ret) ==
    IF ret.hasErr
    THEN NewToolResultError(L("Error retrieving findings: ") \o ret.err)
    ELSE NewToolResultText(listFindingsText(ret.findings))

cmdGetFindingDetailStart(a, isMap) ==
    LET id == RequireInt(GetArguments(a, isMap), "finding_id")
    IN  IF ~id.ok
        THEN Returns(NewToolResultError(L("Invalid finding_id: ") \o id.err))
        ELSE Calls(CallGetFindingDetail(id.n))

cmdGetFindingDetailFinish(c, ret) ==
    IF ret.hasErr
    THEN NewToolResultError(L("Error retrieving finding ") \o Itoa(c.findingID)
                            \o L(": ") \o ret.err)
    ELSE NewToolResultText(findingDetailText(ret.finding))

cmdMarkFalsePositiveStart(a, isMap) ==
    LET id == RequireInt(GetArguments(a, isMap), "finding_id")
        justification == RequireString(GetArguments(a, isMap), "justification")
        notes == GetString(GetArguments(a, isMap), "notes", <<>>)
    IN  IF ~id.ok
        THEN Returns(NewToolResultError(L("Invalid finding_id: ") \o id.err))
        ELSE IF ~justification.ok
        THEN Returns(NewToolResultError(L("Invalid justification: ")
                                        \o justification.err))
        ELSE Calls(CallMarkFalsePositive(id.n,
                 [IsFalsePositive |-> TRUE, Justification |-> justification.s,
                  Notes |-> notes]))

cmdMarkFalsePositiveFinish(c, ret) ==
    IF ret.hasErr
    THEN NewToolResultError(L("Error marking finding ") \o Itoa(c.findingID)
                            \o L(" as false positive: ") \o ret.err)
    ELSE NewToolResultText(falsePositiveText(ret.fp))

----------------------------------------------------------------------------
(* Dispatch: the handler registered under a tool name by an entry point,    *)
(* and the adapter operation a handler calls                                *)

EntryPoints == {"internal", "pkg", "cmd"}

Tools == {"defectdojo_health_check", "get_defectdojo_findings",
          "get_finding_detail", "mark_finding_false_positive"}

HandlerStart(e, t, a, isMap) ==
    CASE e = "internal" /\ t = "defectdojo_health_check" -> internalHealthCheckStart(a, isMap)
      [] e = "internal" /\ t = "get_defectdojo_findings" -> internalGetFindingsStart(a, isMap)
      [] e = "internal" /\ t = "get_finding_detail" -> internalGetFindingDetailStart(a, isMap)
      [] e = "internal" /\ t = "mark_finding_false_positive" -> internalMarkFalsePositiveStart(a, isMap)
      [] e = "pkg" /\ t = "defectdojo_health_check" -> pkgHealthCheckStart(a, isMap)
      [] e = "pkg" /\ t = "get_defectdojo_findings" -> pkgGetFindingsStart(a, isMap)
      [] e = "pkg" /\ t = "get_finding_detail" -> pkgGetFindingDetailStart(a, isMap)
      [] e = "pkg" /\ t = "mark_finding_false_positive" -> pkgMarkFalsePositiveStart(a, isMap)
      [] e = "cmd" /\ t = "defectdojo_health_check" -> cmdHealthCheckStart(a, isMap)
      [] e = "cmd" /\ t = "get_defectdojo_findings" -> cmdGetFindingsStart(a, isMap)
      [] e = "cmd" /\ t = "get_finding_detail" -> cmdGetFindingDetailStart(a, isMap)
      [] e = "cmd" /\ t = "mark_finding_false_positive" -> cmdMarkFalsePositiveStart(a, isMap)

HandlerFinish(e, t, c, ret) ==
    CASE e = "internal" /\ t = "defectdojo_health_check" -> internalHealthCheckFinish(c, ret)
      [] e = "internal" /\ t = "get_defectdojo_findings" -> internalGetFindingsFinish(c, ret)
      [] e = "internal" /\ t = "get_finding_detail" -> internalGetFindingDetailFinish(c, ret)
      [] e = "internal" /\ t = "mark_finding_false_positive" -> internalMarkFalsePositiveFinish(c, ret)
      [] e = "pkg" /\ t = "defectdojo_health_check" -> pkgHealthCheckFinish(c, ret)
      [] e = "pkg" /\ t = "get_defectdojo_findings" -> pkgGetFindingsFinish(c, ret)
      [] e = "pkg" /\ t = "get_finding_detail" -> pkgGetFindingDetailFinish(c, ret)
      [] e = "pkg" /\ t = "mark_finding_false_positive" -> pkgMarkFalsePositiveFinish(c, ret)
      [] e = "cmd" /\ t = "defectdojo_health_check" -> cmdHealthCheckFinish(c, ret)
      [] e = "cmd" /\ t = "get_defectdojo_findings" -> cmdGetFindingsFinish(c, ret)
      [] e = "cmd" /\ t = "get_finding_detail" -> cmdGetFindingDetailFinish(c, ret)
      [] e = "cmd" /\ t = "mark_finding_false_positive" -> cmdMarkFalsePositiveFinish(c, ret)

AdapterRequest(c, k) ==
    CASE k.op = "GetFindings" -> GetFindingsRequest(c, k.filter)
      [] k.op = "GetFindingDetail" -> GetFindingDetailRequest(c, k.findingID)
      [] k.op = "MarkFalsePositive" ->
             MarkFalsePositiveRequest(c, k.findingID, k.request)
      [] k.op = "HealthCheck" -> HealthCheckRequest(c)

AdapterFinish(c, k, req, out) ==
    CASE k.op = "GetFindings" -> GetFindingsFinish(req, out)
      [] k.op = "GetFindingDetail" -> GetFindingDetailFinish(req, out)
      [] k.op = "MarkFalsePositive" -> MarkFalsePositiveFinish(req, out)
      [] k.op = "HealthCheck" -> HealthCheckFinish(c, req, out)

----------------------------------------------------------------------------
(* The environment: configurations, argument bags, and what the network     *)
(* and the remote service can answer                                        *)

SampleAPIKey == <<"k", "e", "y">>

Configs ==
    {DefaultConfig,
     [DefaultConfig EXCEPT !.APIKey = SampleAPIKey],
     [DefaultConfig EXCEPT !.BaseURL = BadBaseURL]}

IdValues ==
    {Absent, Num(0), Num(-1), Float(1, 2), Float(3, 2), GoInt(0), Bool(TRUE),
     Str(<<"a", "b", "c">>), Str(<<"0">>), Str(<<"-", "1">>)}
    \cup {Num(MaxId), GoInt(MaxId), Str(Itoa(MaxId))}

SeverityValues ==
    {Absent, Str(SeverityHigh), Str(<<"H", "I", "G", "H">>),
     Str(<<"a", "&", "b">>)}

\* <<limit, offset>> arguments
PageArgs ==
    {<<Absent, Absent>>, <<Num(5), Absent>>, <<Absent, Num(3)>>,
     <<Num(-1), Num(-2)>>}

ListArgs ==
    { [NoArgs EXCEPT !.limit = pg[1], !.offset = pg[2], !.active_only = ao,
                     !.severity = sv, !.verified = vf, !.test = ts] :
          pg \in PageArgs,
          ao \in {Absent, Bool(FALSE)},
          sv \in SeverityValues,
          vf \in {Absent, Bool(TRUE), Bool(FALSE)},
          ts \in {Absent, Num(0), Num(MaxId)} }

DetailArgs == { [NoArgs EXCEPT !.finding_id = v] : v \in IdValues }

MarkArgs ==
    { [NoArgs EXCEPT !.finding_id = v, !.justification = j, !.notes = n] :
          v \in IdValues,
          j \in {Absent, Str(<<>>), Str(<<"f", "p">>), Num(1)},
          n \in {Absent, Str(<<"n", "b">>)} }

ArgsOf(t) ==
    CASE t = "defectdojo_health_check" -> {NoArgs}
      [] t = "get_defectdojo_findings" -> ListArgs
      [] t = "get_finding_detail" -> DetailArgs
      [] t = "mark_finding_false_positive" -> MarkArgs

SampleJustification == <<"n", "o", "t", " ", "r", "e", "a", "l">>
SampleNotes == <<"s", "e", "e", " ", "t", "i", "c", "k", "e", "t">>

\* the parameters of direct adapter calls
DirectFilters ==
    { [Limit |-> l, Offset |-> 0, ActiveOnly |-> ao, Severity |-> sv,
       HasVerified |-> vf[1], Verified |-> vf[2],
       HasTest |-> ts[1], Test |-> ts[2]] :
          l \in {0, 10}, ao \in BOOLEAN,
          sv \in {<<>>, SeverityCritical, <<"a", "&", "b">>},
          vf \in {<<FALSE, FALSE>>, <<TRUE, FALSE>>, <<TRUE, TRUE>>},
          ts \in {<<FALSE, 0>>, <<TRUE, 0>>, <<TRUE, MaxId>>} }

DirectRequests ==
    { [IsFalsePositive |-> fp, Justification |-> j, Notes |-> n] :
          fp \in BOOLEAN, j \in {<<>>, SampleJustification},
          n \in {<<>>, SampleNotes} }

DirectCalls ==
    { CallGetFindings(f) : f \in DirectFilters }
    \cup { CallGetFindingDetail(i) : i \in {0, MaxId} }
    \cup { CallMarkFalsePositive(i, r) : i \in {0, MaxId}, r \in DirectRequests }
    \cup {CallHealthCheck}

\* a finding the remote service holds
SampleFinding(i) ==
    [ID |-> i, Title |-> L("Finding ") \o Itoa(i),
     Severity |-> IF i % 2 = 1 THEN SeverityHigh ELSE SeverityLow,
     Description |-> IF i % 2 = 1 THEN L("description of ") \o Itoa(i) ELSE <<>>,
     Active |-> i % 2 = 1, Verified |-> i % 2 = 0, FalseP |-> i % 2 = 0,
     Test |-> i,
     Created |-> IF i % 2 = 1 THEN <<"2024-01-01T00:00:00Z">> ELSE <<>>,
     Modified |-> IF i % 2 = 1 THEN <<"2024-01-02T00:00:00Z">> ELSE <<>>]

\* a response body: the raw bytes, and what encoding/json makes of them
JSONBody(raw, findings, finding) ==
    [raw |-> raw, decodes |-> TRUE, decodeErr |-> <<>>,
     findings |-> findings, finding |-> finding]

BadBody(raw, decodeErr) ==
    [raw |-> raw, decodes |-> FALSE, decodeErr |-> decodeErr,
     findings |-> ZeroFindingsResponse, finding |-> ZeroFinding]

InvalidJSONBody ==
    BadBody(<<"invalid json">>,
            <<"invalid character 'i' looking for beginning of value">>)

EmptyBody == BadBody(<<>>, <<"EOF">>)

\* a JSON object none of whose keys is a field of the decoded type
DetailBody ==
    JSONBody(<<"{\"detail\":\"Not found.\"}">>, ZeroFindingsResponse, ZeroFinding)

\* a page of n findings; a page with a next link reports a larger total
Page(n, more) ==
    [Count |-> IF more THEN n + MaxResults ELSE n, HasNext |-> more,
     HasPrevious |-> FALSE, Results |-> [i \in 1..n |-> SampleFinding(i)]]

PageBodies ==
    { JSONBody(L("{\"count\":") \o Itoa(Page(n, more).Count)
               \o L(",\"results\":[...]}"),
               Page(n, more), ZeroFinding) :
          n \in 0..MaxResults, more \in BOOLEAN }
    \ { JSONBody(L("{\"count\":") \o Itoa(Page(n, TRUE).Count)
                  \o L(",\"results\":[...]}"),
                  Page(n, TRUE), ZeroFinding) : n \in 1..(MaxResults - 1) }

FindingBodies ==
    { JSONBody(L("{\"id\":") \o Itoa(i) \o L(",...}"),
               ZeroFindingsResponse, SampleFinding(i)) : i \in 1..MaxId }

\* the answers of the remote service that are not 200 OK
ErrorResponses ==
    { [kind |-> "response", reason |-> "", status |-> 201, body |-> DetailBody],
      [kind |-> "response", reason |-> "", status |-> 404, body |-> DetailBody],
      [kind |-> "response", reason |-> "", status |-> 500, body |-> InvalidJSONBody] }

TransportReasons ==
    {"connection refused", "context canceled", "context deadline exceeded"}

Response(status, body) ==
    [kind |-> "response", reason |-> "", status |-> status, body |-> body]

TransportFailure(reason) ==
    [kind |-> "transport", reason |-> reason, status |-> 0, body |-> EmptyBody]

NoOutcome == [kind |-> "none", reason |-> "", status |-> 0, body |-> EmptyBody]

OKBodies(op) ==
    CASE op = "GetFindings" -> PageBodies
      [] op = "GetFindingDetail" -> FindingBodies
      [] op = "MarkFalsePositive" -> FindingBodies
      [] op = "HealthCheck" -> {}

Responses(op) ==
    { Response(StatusOK, b) : b \in OKBodies(op) \cup {InvalidJSONBody, EmptyBody, DetailBody} }
    \cup ErrorResponses

\* no function has been applied yet
NoProbe == [fn |-> "none", arg |-> <<>>, out |-> <<>>]

\* a server that has been built and has not been started
NotServing ==
    [state |-> "built", api |-> "none", ctx |-> "live", stdin |-> "open",
     signalled |-> FALSE, served |-> 0]

\* the invocations in progress at the same time: each runs its handler in a
\* goroutine of its own, with its own arguments and local variables
Slots == 1..MaxConcurrent

\* a goroutine that runs no handler
IdleSlot ==
    [pc |-> "idle", entry |-> "internal", tool |-> "defectdojo_health_check",
     args |-> NoArgs, argsIsMap |-> TRUE, call |-> NoCall, req |-> NoRequest,
     outcome |-> NoOutcome, ret |-> NoRet, result |-> NoResult]

----------------------------------------------------------------------------
(* The state machine: one tool invocation at a time                         *)

Init ==
    /\ cfg \in Configs
    /\ pc = "idle"
    /\ entry = "internal"
    /\ tool = "defectdojo_health_check"
    /\ args = NoArgs
    /\ argsIsMap = TRUE
    /\ call = NoCall
    /\ sent = <<>>
    /\ adapterCalls = 0
    /\ outcome = NoOutcome
    /\ adapterRet = NoRet
    /\ result = NoResult
    /\ slots = [s \in Slots |-> IdleSlot]
    /\ probe = NoProbe
    /\ srv = NotServing

\* The framework calls the handler registered for tool t with the argument
\* bag a.  The handler runs until it returns or blocks in httpClient.Do.
Invoke(e, t, a, isMap) ==
    /\ pc = "idle"
    /\ entry' = e /\ tool' = t /\ args' = a /\ argsIsMap' = isMap
    /\ outcome' = NoOutcome
    /\ LET h == HandlerStart(e, t, a, isMap)
           b == AdapterRequest(cfg, h.call)
       IN  IF h.done
           THEN /\ call' = NoCall /\ adapterCalls' = 0 /\ sent' = <<>>
                /\ adapterRet' = NoRet
                /\ result' = h.result
                /\ pc' = "done"
           ELSE /\ call' = h.call /\ adapterCalls' = 1
                /\ IF b.ok
                   THEN /\ sent' = <<b.req>>
                        /\ adapterRet' = NoRet
                        /\ result' = NoResult
                        /\ pc' = "waiting"
                   ELSE /\ sent' = <<>>
                        /\ adapterRet' = b.ret
                        /\ result' = HandlerFinish(e, t, h.call, b.ret)
                        /\ pc' = "done"
    /\ UNCHANGED <<cfg, slots, probe, srv>>

\* A caller other than a tool handler (the adapter's tests, a program that
\* embeds the client) calls an adapter operation with parameters of its own.
CallAdapter(k) ==
    /\ pc = "idle"
    /\ entry' = "adapter" /\ tool' = "none" /\ args' = NoArgs /\ argsIsMap' = TRUE
    /\ outcome' = NoOutcome
    /\ call' = k /\ adapterCalls' = 1
    /\ result' = NoResult
    /\ LET b == AdapterRequest(cfg, k)
       IN  IF b.ok
           THEN sent' = <<b.req>> /\ adapterRet' = NoRet /\ pc' = "waiting"
           ELSE sent' = <<>> /\ adapterRet' = b.ret /\ pc' = "done"
    /\ UNCHANGED <<cfg, slots, probe, srv>>

\* a version that sends the request again after a failed exchange
Deliver_Retry(out) ==
    /\ pc = "waiting"
    /\ IF (out.kind = "transport" \/ out.status # StatusOK) /\ Len(sent) < 2
       THEN /\ sent' = Append(sent, sent[Len(sent)])
            /\ UNCHANGED <<pc, outcome, adapterRet, result>>
       ELSE /\ outcome' = out
            /\ adapterRet' = AdapterFinish(cfg, call, sent[Len(sent)], out)
            /\ result' = IF entry = "adapter" THEN NoResult
                         ELSE HandlerFinish(entry, tool, call,
                                  AdapterFinish(cfg, call, sent[Len(sent)], out))
            /\ pc' = "done"
            /\ sent' = sent
    /\ UNCHANGED <<cfg, entry, tool, args, argsIsMap, call, adapterCalls, slots,
                   probe, srv>>

\* httpClient.Do returns with the outcome of the exchange; the adapter
\* operation returns and the handler builds its result.
Deliver(out) ==
    /\ pc = "waiting"
    /\ outcome' = out
    /\ LET ret == AdapterFinish(cfg, call, sent[Len(sent)], out)
       IN  /\ adapterRet' = ret
           /\ result' = IF entry = "adapter" THEN NoResult
                        ELSE HandlerFinish(entry, tool, call, ret)
    /\ pc' = "done"
    /\ UNCHANGED <<cfg, entry, tool, args, argsIsMap, call, sent, adapterCalls,
                   slots, probe, srv>>

\* The framework takes the handler's result; nothing of the invocation is
\* kept, and the server is ready for the next one.
Complete ==
    /\ pc = "done"
    /\ pc' = "idle"
    /\ entry' = "internal" /\ tool' = "defectdojo_health_check"
    /\ args' = NoArgs /\ argsIsMap' = TRUE
    /\ call' = NoCall /\ sent' = <<>> /\ adapterCalls' = 0
    /\ outcome' = NoOutcome /\ adapterRet' = NoRet /\ result' = NoResult
    /\ UNCHANGED <<cfg, slots, probe, srv>>

InvokeAny ==
    \E e \in EntryPoints, t \in Tools :
        \/ \E a \in ArgsOf(t) : Invoke(e, t, a, TRUE)
        \/ Invoke(e, t, NoArgs, FALSE)

CallAdapterAny == \E k \in DirectCalls : CallAdapter(k)

RespondAny == pc = "waiting" /\ \E out \in Responses(call.op) : Deliver(out)

TransportFailAny == pc = "waiting" /\ \E r \in TransportReasons : Deliver(TransportFailure(r))

Next == InvokeAny \/ CallAdapterAny \/ RespondAny \/ TransportFailAny \/ Complete

Spec == Init /\ [][Next]_vars

----------------------------------------------------------------------------
(* The state machine: tool invocations running at the same time.  The       *)
(* handlers share the adapter (its configuration and its http.Client); each *)
(* invocation's arguments, request, response and result are local to its    *)
(* goroutine.  A step is one handler running from one blocking point to the *)
(* next.                                                                    *)

\* <<entry point, tool, argument bag>> of the invocations that overlap
ConcInvocations ==
    { <<"internal", "get_defectdojo_findings", [NoArgs EXCEPT !.limit = Num(5)]>>,
      <<"pkg", "get_finding_detail", [NoArgs EXCEPT !.finding_id = Num(MaxId)]>>,
      <<"cmd", "mark_finding_false_positive",
        [NoArgs EXCEPT !.finding_id = Num(1), !.justification = Str(<<"f", "p">>)]>>,
      <<"internal", "defectdojo_health_check", NoArgs>>,
      <<"internal", "get_finding_detail", NoArgs>> }

\* what httpClient.Do can return to an invocation
ConcOutcomes(op) ==
    { Response(StatusOK, b) : b \in OKBodies(op) \cup {EmptyBody} }
    \cup {Response(500, InvalidJSONBody), TransportFailure("context canceled")}

\* goroutine s runs the handler of tool t up to its return or to
\* httpClient.Do
ConcInvoke(s, e, t, a) ==
    /\ slots[s].pc = "idle"
    /\ LET h == HandlerStart(e, t, a, TRUE)
           b == AdapterRequest(cfg, h.call)
           started == [IdleSlot EXCEPT !.entry = e, !.tool = t, !.args = a]
       IN  slots' =
             [slots EXCEPT ![s] =
                IF h.done
                THEN [started EXCEPT !.pc = "done", !.result = h.result]
                ELSE IF b.ok
                THEN [started EXCEPT !.pc = "waiting", !.call = h.call,
                                     !.req = b.req]
                ELSE [started EXCEPT !.pc = "done", !.call = h.call,
                                     !.ret = b.ret,
                                     !.result = HandlerFinish(e, t, h.call, b.ret)]]
    /\ UNCHANGED <<cfg, pc, entry, tool, args, argsIsMap, call, sent,
                   adapterCalls, outcome, adapterRet, result, probe, srv>>

\* a version of the adapter that keeps the URL of its last request in the
\* configuration the handlers share
ConcDeliver_WritesConfig(s, out) ==
    /\ slots[s].pc = "waiting"
    /\ LET me == slots[s]
           ret == AdapterFinish(cfg, me.call, me.req, out)
       IN  slots' = [slots EXCEPT ![s] =
                        [me EXCEPT !.pc = "done", !.outcome = out, !.ret = ret,
                                   !.result = HandlerFinish(me.entry, me.tool,
                                                            me.call, ret)]]
    /\ cfg' = [cfg EXCEPT !.BaseURL = slots[s].req.url]
    /\ UNCHANGED <<pc, entry, tool, args, argsIsMap, call, sent,
                   adapterCalls, outcome, adapterRet, result, probe, srv>>

\* httpClient.Do returns in goroutine s; the adapter operation and the
\* handler return
ConcDeliver(s, out) ==
    /\ slots[s].pc = "waiting"
    /\ LET me == slots[s]
           ret == AdapterFinish(cfg, me.call, me.req, out)
       IN  slots' = [slots EXCEPT ![s] =
                        [me EXCEPT !.pc = "done", !.outcome = out, !.ret = ret,
                                   !.result = HandlerFinish(me.entry, me.tool,
                                                            me.call, ret)]]
    /\ UNCHANGED <<cfg, pc, entry, tool, args, argsIsMap, call, sent,
                   adapterCalls, outcome, adapterRet, result, probe, srv>>

\* the framework takes the result of goroutine s, which ends
ConcComplete(s) ==
    /\ slots[s].pc = "done"
    /\ slots' = [slots EXCEPT ![s] = IdleSlot]
    /\ UNCHANGED <<cfg, pc, entry, tool, args, argsIsMap, call, sent,
                   adapterCalls, outcome, adapterRet, result, probe, srv>>

NextConc ==
    \/ \E s \in Slots, i \in ConcInvocations : ConcInvoke(s, i[1], i[2], i[3])
    \/ \E s \in Slots :
           /\ slots[s].pc = "waiting"
           /\ \E out \in ConcOutcomes(slots[s].call.op) : ConcDeliver(s, out)
    \/ \E s \in Slots : ConcComplete(s)

SpecConc == Init /\ [][NextConc]_vars

----------------------------------------------------------------------------
(* encoding/json on the tagged structs of pkg/types                         *)
(* A document is a sequence of characters.  One element of a Go string is   *)
(* one character, or one byte that is not part of any UTF-8 encoding.       *)

\* a byte that is no valid UTF-8 (such as 0xff)
InvalidByte == "\\xff"
\* U+FFFD, the character the encoder and the decoder put in its place
ReplacementChar == "U+FFFD"
\* a character outside ASCII is written by its code point, as in "U+00E9"
\* U+0001, a control character without a short escape
CtlSOH == "U+0001"

\* the encoder's escaping of one element of a string (HTML escaping is on)
EscapeRune_RawQuote(c) ==
    CASE c = "\\" -> <<"\\", "\\">>
      [] c = "\n" -> <<"\\", "n">>
      [] c = "\r" -> <<"\\", "r">>
      [] c = "\t" -> <<"\\", "t">>
      [] c = CtlSOH -> <<"\\", "u", "0", "0", "0", "1">>
      [] c = "<" -> <<"\\", "u", "0", "0", "3", "c">>
      [] c = ">" -> <<"\\", "u", "0", "0", "3", "e">>
      [] c = "&" -> <<"\\", "u", "0", "0", "2", "6">>
      [] c = InvalidByte -> <<"\\", "u", "f", "f", "f", "d">>
      [] OTHER -> <<c>>

EscapeRune(c) ==
    CASE c = "\"" -> <<"\\", "\"">>
      [] c = "\\" -> <<"\\", "\\">>
      [] c = "\n" -> <<"\\", "n">>
      [] c = "\r" -> <<"\\", "r">>
      [] c = "\t" -> <<"\\", "t">>
      [] c = CtlSOH -> <<"\\", "u", "0", "0", "0", "1">>
      [] c = "<" -> <<"\\", "u", "0", "0", "3", "c">>
      [] c = ">" -> <<"\\", "u", "0", "0", "3", "e">>
      [] c = "&" -> <<"\\", "u", "0", "0", "2", "6">>
      [] c = InvalidByte -> <<"\\", "u", "f", "f", "f", "d">>
      [] OTHER -> <<c>>

RECURSIVE EscapeString(_)
EscapeString(s) ==
    IF s = <<>> THEN <<>> ELSE EscapeRune(Head(s)) \o EscapeString(Tail(s))

\* a string value as the encoder writes it
Quote(s) == <<"\"">> \o EscapeString(s) \o <<"\"">>

\* one member of an object: the tag's name, a colon, the encoded value
Member(key, value) == <<"\"">> \o key \o <<"\"", ":">> \o value

\* a member whose tag says omitempty
OmitEmpty(key, s) == IF s = <<>> THEN <<>> ELSE <<Member(key, Quote(s))>>

RECURSIVE JoinMembers(_)
JoinMembers(ms) ==
    IF ms = <<>> THEN <<>>
    ELSE IF Len(ms) = 1 THEN ms[1]
    ELSE ms[1] \o <<",">> \o JoinMembers(Tail(ms))

Object(ms) == <<"{">> \o JoinMembers(ms) \o <<"}">>

\* json.Marshal of a types.Finding: members in field order
MarshalFinding(f) ==
    Object(<<Member(<<"i", "d">>, Itoa(f.ID)),
             Member(<<"t", "i", "t", "l", "e">>, Quote(f.Title)),
             Member(<<"s", "e", "v", "e", "r", "i", "t", "y">>, Quote(f.Severity)),
             Member(<<"d", "e", "s", "c", "r", "i", "p", "t", "i", "o", "n">>, Quote(f.Description)),
             Member(<<"a", "c", "t", "i", "v", "e">>, FormatBool(f.Active)),
             Member(<<"v", "e", "r", "i", "f", "i", "e", "d">>, FormatBool(f.Verified)),
             Member(<<"f", "a", "l", "s", "e", "_", "p">>, FormatBool(f.FalseP)),
             Member(<<"t", "e", "s", "t">>, Itoa(f.Test))>>
           \o OmitEmpty(<<"c", "r", "e", "a", "t", "e", "d">>, f.Created)
           \o OmitEmpty(<<"m", "o", "d", "i", "f", "i", "e", "d">>, f.Modified))

\* json.Marshal of a types.FalsePositiveRequest
MarshalFalsePositiveRequest(r) ==
    Object(<<Member(<<"f", "a", "l", "s", "e", "_", "p">>, FormatBool(r.IsFalsePositive))>>
           \o OmitEmpty(<<"j", "u", "s", "t", "i", "f", "i", "c", "a", "t", "i", "o", "n">>, r.Justification)
           \o OmitEmpty(<<"n", "o", "t", "e", "s">>, r.Notes))

\* what the decoder's scanner hands back: a value and the position after it
JFail(i) ==
    [ok |-> FALSE, kind |-> "none", s |-> <<>>, n |-> 0, b |-> FALSE, next |-> i]
JString(s, i) ==
    [ok |-> TRUE, kind |-> "string", s |-> s, n |-> 0, b |-> FALSE, next |-> i]
JNumber(n, i) ==
    [ok |-> TRUE, kind |-> "number", s |-> <<>>, n |-> n, b |-> FALSE, next |-> i]
JBool(b, i) ==
    [ok |-> TRUE, kind |-> "bool", s |-> <<>>, n |-> 0, b |-> b, next |-> i]

\* the character a \uXXXX escape stands for
UnicodeEscapes ==
    {<<<<"0", "0", "0", "1">>, CtlSOH>>, <<<<"0", "0", "3", "c">>, "<">>,
     <<<<"0", "0", "3", "e">>, ">">>, <<<<"0", "0", "2", "6">>, "&">>,
     <<<<"f", "f", "f", "d">>, ReplacementChar>>}

\* the character a two-character escape stands for
ShortEscapes ==
    {<<"\"", "\"">>, <<"\\", "\\">>, <<"/", "/">>, <<"n", "\n">>,
     <<"r", "\r">>, <<"t", "\t">>}

\* the decoder reading the inside of a string from position i on
RECURSIVE ScanString(_, _, _)
ScanString(doc, i, acc) ==
    IF i > Len(doc) THEN JFail(i)
    ELSE IF doc[i] = "\"" THEN JString(acc, i + 1)
    ELSE IF doc[i] \in {"\n", "\r", "\t", CtlSOH} THEN JFail(i)
    ELSE IF doc[i] = InvalidByte
    THEN ScanString(doc, i + 1, Append(acc, ReplacementChar))
    ELSE IF doc[i] # "\\" THEN ScanString(doc, i + 1, Append(acc, doc[i]))
    ELSE IF i + 1 > Len(doc) THEN JFail(i)
    ELSE IF doc[i + 1] = "u"
    THEN IF /\ i + 5 <= Len(doc)
            /\ \E e \in UnicodeEscapes : e[1] = SubSeq(doc, i + 2, i + 5)
         THEN ScanString(doc, i + 6,
                  Append(acc, (CHOOSE e \in UnicodeEscapes :
                                   e[1] = SubSeq(doc, i + 2, i + 5))[2]))
         ELSE JFail(i)
    ELSE IF \E e \in ShortEscapes : e[1] = doc[i + 1]
    THEN ScanString(doc, i + 2,
             Append(acc, (CHOOSE e \in ShortEscapes : e[1] = doc[i + 1])[2]))
    ELSE JFail(i)

\* the position after the run of digits that starts at i
RECURSIVE DigitsEnd(_, _)
DigitsEnd(doc, i) ==
    IF i <= Len(doc) /\ IsDigit(doc[i]) THEN DigitsEnd(doc, i + 1) ELSE i

\* the decoder reading an integer literal: no leading zero, no bare sign
ScanNumber(doc, i) ==
    LET neg    == doc[i] = "-"
        from   == IF neg THEN i + 1 ELSE i
        end    == DigitsEnd(doc, from)
        digits == SubSeq(doc, from, end - 1)
    IN  IF digits = <<>> \/ (Len(digits) > 1 /\ digits[1] = "0") THEN JFail(i)
        ELSE IF end <= Len(doc) /\ doc[end] \in {".", "e", "E"} THEN JFail(i)
        ELSE JNumber(IF neg THEN -DigitsVal(digits, 0) ELSE DigitsVal(digits, 0),
                     end)

LiteralAt(doc, i, lit) ==
    /\ i + Len(lit) - 1 <= Len(doc)
    /\ SubSeq(doc, i, i + Len(lit) - 1) = lit

\* the decoder reading one value of a flat object
ScanValue(doc, i) ==
    IF i > Len(doc) THEN JFail(i)
    ELSE IF doc[i] = "\"" THEN ScanString(doc, i + 1, <<>>)
    ELSE IF LiteralAt(doc, i, StrTrue) THEN JBool(TRUE, i + 4)
    ELSE IF LiteralAt(doc, i, StrFalse) THEN JBool(FALSE, i + 5)
    ELSE IF doc[i] = "-" \/ IsDigit(doc[i]) THEN ScanNumber(doc, i)
    ELSE JFail(i)

BadObject == [ok |-> FALSE, members |-> <<>>]

\* the decoder reading "key":value members up to the closing brace
RECURSIVE ScanMembers(_, _, _)
ScanMembers(doc, i, acc) ==
    IF i > Len(doc) \/ doc[i] # "\"" THEN BadObject
    ELSE LET k == ScanString(doc, i + 1, <<>>)
         IN  IF ~k.ok \/ k.next > Len(doc) \/ doc[k.next] # ":" THEN BadObject
             ELSE LET v == ScanValue(doc, k.next + 1)
                      members == Append(acc, [key |-> k.s, val |-> v])
                  IN  IF ~v.ok \/ v.next > Len(doc) THEN BadObject
                      ELSE IF doc[v.next] = ","
                      THEN ScanMembers(doc, v.next + 1, members)
                      ELSE IF doc[v.next] = "}" /\ v.next = Len(doc)
                      THEN [ok |-> TRUE, members |-> members]
                      ELSE BadObject

\* the decoder on a whole document written without white space
ParseObject(doc) ==
    IF Len(doc) < 2 \/ doc[1] # "{" THEN BadObject
    ELSE IF doc = <<"{", "}">> THEN [ok |-> TRUE, members |-> <<>>]
    ELSE ScanMembers(doc, 2, <<>>)

HasMember(members, key) == \E i \in DOMAIN members : members[i].key = key

\* a key that occurs twice takes its last value
LastMember(members, key) ==
    members[CHOOSE i \in DOMAIN members :
                /\ members[i].key = key
                /\ \A j \in DOMAIN members : j > i => members[j].key # key].val

\* the member named key holds a value that fits a field of this kind
Fits(members, key, kind) ==
    HasMember(members, key) /\ LastMember(members, key).kind = kind

\* json.Unmarshal into a fresh types.Finding
UnmarshalFinding(doc) ==
    LET o == ParseObject(doc)
        m == o.members
        str(key) == IF Fits(m, key, "string") THEN LastMember(m, key).s ELSE <<>>
        num(key) == IF Fits(m, key, "number") THEN LastMember(m, key).n ELSE 0
        bool(key) == IF Fits(m, key, "bool") THEN LastMember(m, key).b ELSE FALSE
        mismatch ==
            \/ \E key \in {<<"t", "i", "t", "l", "e">>, <<"s", "e", "v", "e", "r", "i", "t", "y">>, <<"d", "e", "s", "c", "r", "i", "p", "t", "i", "o", "n">>, <<"c", "r", "e", "a", "t", "e", "d">>, <<"m", "o", "d", "i", "f", "i", "e", "d">>} :
                   HasMember(m, key) /\ ~Fits(m, key, "string")
            \/ \E key \in {<<"i", "d">>, <<"t", "e", "s", "t">>} :
                   HasMember(m, key) /\ ~Fits(m, key, "number")
            \/ \E key \in {<<"a", "c", "t", "i", "v", "e">>, <<"v", "e", "r", "i", "f", "i", "e", "d">>, <<"f", "a", "l", "s", "e", "_", "p">>} :
                   HasMember(m, key) /\ ~Fits(m, key, "bool")
    IN  IF ~o.ok THEN [err |-> TRUE, v |-> ZeroFinding]
        ELSE [err |-> mismatch,
              v |-> [ID |-> num(<<"i", "d">>), Title |-> str(<<"t", "i", "t", "l", "e">>),
                     Severity |-> str(<<"s", "e", "v", "e", "r", "i", "t", "y">>),
                     Description |-> str(<<"d", "e", "s", "c", "r", "i", "p", "t", "i", "o", "n">>),
                     Active |-> bool(<<"a", "c", "t", "i", "v", "e">>), Verified |-> bool(<<"v", "e", "r", "i", "f", "i", "e", "d">>),
                     FalseP |-> bool(<<"f", "a", "l", "s", "e", "_", "p">>), Test |-> num(<<"t", "e", "s", "t">>),
                     Created |-> str(<<"c", "r", "e", "a", "t", "e", "d">>), Modified |-> str(<<"m", "o", "d", "i", "f", "i", "e", "d">>)]]

\* json.Unmarshal into a fresh types.FalsePositiveRequest
UnmarshalFalsePositiveRequest(doc) ==
    LET o == ParseObject(doc)
        m == o.members
        str(key) == IF Fits(m, key, "string") THEN LastMember(m, key).s ELSE <<>>
        mismatch ==
            \/ \E key \in {<<"j", "u", "s", "t", "i", "f", "i", "c", "a", "t", "i", "o", "n">>, <<"n", "o", "t", "e", "s">>} :
                   HasMember(m, key) /\ ~Fits(m, key, "string")
            \/ HasMember(m, <<"f", "a", "l", "s", "e", "_", "p">>) /\ ~Fits(m, <<"f", "a", "l", "s", "e", "_", "p">>, "bool")
    IN  IF ~o.ok THEN [err |-> TRUE, v |-> ZeroFalsePositiveRequest]
        ELSE [err |-> mismatch,
              v |-> [IsFalsePositive |->
                         IF Fits(m, <<"f", "a", "l", "s", "e", "_", "p">>, "bool")
                         THEN LastMember(m, <<"f", "a", "l", "s", "e", "_", "p">>).b ELSE FALSE,
                     Justification |-> str(<<"j", "u", "s", "t", "i", "f", "i", "c", "a", "t", "i", "o", "n">>),
                     Notes |-> str(<<"n", "o", "t", "e", "s">>)]]

\* strings a Finding or a request may hold
RoundTripStrings ==
    {<<>>,
     <<"S", "Q", "L">>,
     <<"<", "b", ">", "&", "\"", "x", "\"", "<", "/", "b", ">">>,
     <<"a", "\n", "\t", "\r", CtlSOH, "\\", "/">>,
     <<"U+4E16", "U+754C", "U+00E9", "U+00F1">>,
     <<"\\", "u", "0", "0", "3", "c", "\\", "n">>,
     <<ReplacementChar, "}", ",", ":", "{">>,
     <<"a", InvalidByte, "b">>}

BoolTriples ==
    {<<FALSE, FALSE, FALSE>>, <<TRUE, FALSE, FALSE>>, <<FALSE, TRUE, FALSE>>,
     <<FALSE, FALSE, TRUE>>, <<TRUE, TRUE, TRUE>>}

\* the Findings that are encoded and decoded back
RoundTripFindings ==
    { [ID |-> id, Title |-> title, Severity |-> severity,
       Description |-> description,
       Active |-> flags[1], Verified |-> flags[2], FalseP |-> flags[3],
       Test |-> IF id < 0 THEN 0 ELSE 10 * id,
       Created |-> created, Modified |-> created] :
        id \in {0, 123, -7}, title \in RoundTripStrings,
        severity \in {<<>>, SeverityCritical},
        description \in {d \in RoundTripStrings : Len(d) \in {0, 3, 11}},
        flags \in BoolTriples,
        created \in {<<>>, <<"2", "0", "2", "4", "-", "0", "1", "-", "0", "1">>} }

\* the requests that are encoded and decoded back
RoundTripRequests ==
    { [IsFalsePositive |-> b, Justification |-> j, Notes |-> n] :
        b \in BOOLEAN, j \in RoundTripStrings, n \in RoundTripStrings }

\* no element of s is a byte outside UTF-8
ValidUTF8(s) == \A i \in 1..Len(s) : s[i] # InvalidByte

\* MarkFalsePositive: json.Marshal of the payload map, which writes the keys
\* in sorted order; this version leaves an empty justification out
MarshalPayload_OmitsEmptyJustification(payload) ==
    Object(<<Member(<<"f", "a", "l", "s", "e", "_", "p">>, FormatBool(payload.false_p))>>
           \o OmitEmpty(<<"j", "u", "s", "t", "i", "f", "i", "c", "a", "t", "i", "o", "n">>, payload.justification)
           \o (IF payload.hasNotes
               THEN <<Member(<<"n", "o", "t", "e", "s">>, Quote(payload.notes))>> ELSE <<>>))

\* MarkFalsePositive: json.Marshal of the payload map, which writes the keys
\* in sorted order
MarshalPayload(payload) ==
    Object(<<Member(<<"f", "a", "l", "s", "e", "_", "p">>, FormatBool(payload.false_p)),
             Member(<<"j", "u", "s", "t", "i", "f", "i", "c", "a", "t", "i", "o", "n">>, Quote(payload.justification))>>
           \o (IF payload.hasNotes
               THEN <<Member(<<"n", "o", "t", "e", "s">>, Quote(payload.notes))>> ELSE <<>>))

\* the requests a handler can hand to the adapter: their strings were
\* decoded from the JSON of the tool call and so are valid UTF-8
AdapterRequests ==
    { r \in RoundTripRequests : ValidUTF8(r.Justification) /\ ValidUTF8(r.Notes) }

\* encoding v and decoding the document into a fresh value
RoundTrip(doc, decoded) == [doc |-> doc, err |-> decoded.err, v |-> decoded.v]

----------------------------------------------------------------------------
(* The functions of the packages applied on their own: a caller hands a    *)
(* function its argument and keeps what it returns.                         *)

\* strings a caller may ask IsValidSeverity about
SeverityInputs ==
    Range(ValidSeverities)
    \cup {<<>>, <<"C", "R", "I", "T", "I", "C", "A", "L">>,
          <<"c", "r", "i", "t", "i", "c", "a", "l">>, <<"h", "i", "g", "h">>,
          <<"H", "I", "G", "H">>, <<"i", "n", "f", "o">>, <<"L", "O", "W">>,
          <<"H", "i", "g", "h", " ">>, <<" ", "L", "o", "w">>,
          <<"M", "e", "d">>, <<"I", "n", "f", "o", "r", "m", "a", "t", "i", "o", "n", "a", "l">>,
          <<"i", "n", "v", "a", "l", "i", "d">>, <<"5">>}

\* defectdojo.NewHTTPClient: the http.Client takes the configured timeout
\* (in seconds); a Timeout of zero means no timeout
NewHTTPClient(c) == [config |-> c, Timeout |-> c.RequestTimeout]

\* mcpserver.NewServer: a nil Config stands for the defaults, any other
\* Config hands its DefectDojo fields to the adapter as they are
NewServer(c) ==
    [ddClient |-> NewHTTPClient(IF c.isNil THEN DefaultConfig ELSE c.DefectDojo)]

\* mcpserver.NewServerWithSettings
NewServerWithSettings(settings) ==
    NewServer([isNil |-> FALSE,
               DefectDojo |->
                   [DefaultConfig EXCEPT
                        !.BaseURL = settings.BaseURL,
                        !.APIKey = settings.APIKey,
                        !.APIVersion = IF settings.APIVersion # <<>>
                                       THEN settings.APIVersion ELSE @]])

\* the DefectDojoSettings a caller may pass
SettingsValues ==
    [BaseURL : {<<>>, DefaultBaseURL, <<"https://defectdojo.example.com">>},
     APIKey : {<<>>, <<"test-key">>},
     APIVersion : {<<>>, <<"v1">>, <<"v2">>}]

\* the Configs a caller may pass to NewServer, nil included; timeouts in
\* seconds
ServerConfigs ==
    {[isNil |-> TRUE, DefectDojo |-> DefaultConfig]}
    \cup { [isNil |-> FALSE,
            DefectDojo |-> [BaseURL |-> DefaultBaseURL, APIKey |-> key,
                            APIVersion |-> version, RequestTimeout |-> timeout]] :
              key \in {<<>>, <<"test-key">>}, version \in {<<>>, <<"v2">>},
              timeout \in {0, 1, 30, 60} }

\* values of finding_id handed to extractFindingID
ExtractIdValues ==
    IdValues
    \cup {Huge(1), Huge(-1), Num(1), Float(-3, 2), Float(5, 2), GoInt(-1),
          GoInt(1), Str(<<"1">>), Str(<<"1", ".", "5">>), Str(<<>>),
          Str(<<"+", "2">>), Str(<<" ", "1">>), Bool(FALSE)}

\* API versions a configuration may name
APIVersions == {<<>>, <<"v1">>, <<"v2">>, <<"v3">>}

\* environments of the process: a variable that is not set reads as empty
EnvKeys ==
    {"DEFECTDOJO_URL", "DEFECTDOJO_API_KEY", "DEFECTDOJO_API_VERSION",
     "LOG_LEVEL", "LOG_FORMAT", "MCP_SERVER_NAME"}

\* the value a variable has when it is set
EnvValues ==
    [key \in EnvKeys |->
        CASE key = "DEFECTDOJO_URL" -> <<"https://defectdojo.example.com">>
          [] key = "DEFECTDOJO_API_KEY" -> <<"env-api-key">>
          [] key = "DEFECTDOJO_API_VERSION" -> <<"v1">>
          [] key = "LOG_LEVEL" -> <<"debug">>
          [] key = "LOG_FORMAT" -> <<"json">>
          [] key = "MCP_SERVER_NAME" -> <<"renamed-server">>]

Environments ==
    { [key \in EnvKeys |-> IF key \in set THEN EnvValues[key] ELSE <<>>] :
          set \in SUBSET EnvKeys }

\* the function fn was applied to arg and returned out; the caller holds
\* one result at a time
Returned(fn, arg, out) ==
    /\ probe.fn = NoProbe.fn
    /\ probe' = [fn |-> fn, arg |-> arg, out |-> out]
    /\ UNCHANGED <<cfg, pc, entry, tool, args, argsIsMap, call, sent,
                   adapterCalls, outcome, adapterRet, result, slots, srv>>

\* the caller lets go of the result it holds
Discard ==
    /\ probe.fn # NoProbe.fn
    /\ probe' = NoProbe
    /\ UNCHANGED <<cfg, pc, entry, tool, args, argsIsMap, call, sent,
                   adapterCalls, outcome, adapterRet, result, slots, srv>>

NextFn ==
    \/ Discard
    \/ \E x \in SeverityInputs : Returned("IsValidSeverity", x, IsValidSeverity(x))
    \/ Returned("ValidSeverities", <<>>, ValidSeverities)
    \/ \E v \in APIVersions :
           Returned("GetAPIBasePath", v,
                    GetAPIBasePath([DefaultConfig EXCEPT !.APIVersion = v]))
    \/ \E env \in Environments : Returned("Load", env, Load(env))
    \/ \E settings \in SettingsValues :
           Returned("NewServerWithSettings", settings,
                    NewServerWithSettings(settings))
    \/ \E c \in ServerConfigs : Returned("NewServer", c, NewServer(c))
    \/ \E r \in AdapterRequests :
           Returned("MarkFalsePositiveBody", r,
                    MarshalPayload(MarkFalsePositivePayload(r)))
    \/ \E v \in ExtractIdValues :
           \E id \in extractFindingIDOutcomes([NoArgs EXCEPT !.finding_id = v]) :
               Returned("extractFindingID", v, id)
    \/ \E f \in RoundTripFindings :
           Returned("FindingRoundTrip", f,
                    RoundTrip(MarshalFinding(f), UnmarshalFinding(MarshalFinding(f))))
    \/ \E r \in RoundTripRequests :
           Returned("RequestRoundTrip", r,
                    RoundTrip(MarshalFalsePositiveRequest(r),
                              UnmarshalFalsePositiveRequest(MarshalFalsePositiveRequest(r))))

SpecFn == Init /\ [][NextFn]_vars

----------------------------------------------------------------------------
(* Serving over stdio: Server.Run and MCPServer.ServeStdio.  Both hand the  *)
(* server to mcp-go's server.ServeStdio, which serves requests read from    *)
(* standard input until that is closed or the process is signalled.         *)

OtherThanSrv ==
    <<cfg, pc, entry, tool, args, argsIsMap, call, sent, adapterCalls,
      outcome, adapterRet, result, slots, probe>>

\* the caller enters Run(ctx) or ServeStdio(ctx); ctx is not passed on
StartServe(api) ==
    /\ srv.state = "built"
    /\ srv' = [srv EXCEPT !.state = "serving", !.api = api]
    /\ UNCHANGED OtherThanSrv

\* the caller's context is cancelled, or its deadline passes
CtxEnd(how) ==
    /\ srv.ctx = "live"
    /\ srv' = [srv EXCEPT !.ctx = how]
    /\ UNCHANGED OtherThanSrv

\* the serving loop reads one request from standard input and answers it
ServeRequest ==
    /\ srv.state = "serving"
    /\ srv.stdin = "open" /\ ~srv.signalled
    /\ srv.served < MaxServed
    /\ srv' = [srv EXCEPT !.served = @ + 1]
    /\ UNCHANGED OtherThanSrv

\* the peer closes the server's standard input
CloseStdin ==
    /\ srv.stdin = "open"
    /\ srv' = [srv EXCEPT !.stdin = "closed"]
    /\ UNCHANGED OtherThanSrv

\* the process receives SIGINT or SIGTERM
Signal ==
    /\ ~srv.signalled
    /\ srv' = [srv EXCEPT !.signalled = TRUE]
    /\ UNCHANGED OtherThanSrv

\* server.ServeStdio returns: its input has ended or a signal has arrived
ServeReturn ==
    /\ srv.state = "serving"
    /\ srv.stdin = "closed" \/ srv.signalled
    /\ srv' = [srv EXCEPT !.state = "returned"]
    /\ UNCHANGED OtherThanSrv

NextServe ==
    \/ \E api \in {"Run", "ServeStdio"} : StartServe(api)
    \/ \E how \in {"cancelled", "deadline"} : CtxEnd(how)
    \/ ServeRequest
    \/ CloseStdin
    \/ Signal
    \/ ServeReturn

\* the serving loop does return once it may; when the input is closed, a
\* signal arrives or the context ends is up to the environment
SpecServe == Init /\ [][NextServe]_vars /\ WF_vars(ServeReturn)

----------------------------------------------------------------------------
(* Properties                                                               *)

FindingIdTools == {"get_finding_detail", "mark_finding_false_positive"}

\* the handler of an entry point has run (it has returned or is blocked in
\* its adapter call)
HandlerRan == pc \in {"waiting", "done"} /\ entry \in EntryPoints

\* the key occurs in an encoded query
HasKey(q, k) == \E i \in 1..Len(q) : q[i][1] = k

QueryValue(q, k) == q[CHOOSE i \in 1..Len(q) : q[i][1] = k][2]

\* finding_id as the handler sees it
FindingIdArg == GetArguments(args, argsIsMap).finding_id

\* finding_id is 0, missing, or a string that is not a number
FindingIdUnusable ==
    \/ FindingIdArg.t = "absent"
    \/ FindingIdArg.t \in {"float64", "int"} /\ FindingIdArg.n = 0
    \/ FindingIdArg.t = "string" /\ ~Atoi(FindingIdArg.s).ok

\* C1: in every entry point, the detail and mark-false-positive handlers
\* answer a finding_id that is 0, missing or a non-numeric string with a
\* validation error, without calling the adapter and without any request.
C1_UnusableIdRejected ==
    (HandlerRan /\ tool \in FindingIdTools /\ FindingIdUnusable)
        => /\ pc = "done"
           /\ result.kind \in {"toolError", "rawError"}
           /\ adapterCalls = 0
           /\ sent = <<>>

\* C2: the severity of a list-findings query is absent or one of Info, Low,
\* Medium, High, Critical, through every entry point.
C2_SeverityFromEnumeration ==
    (HandlerRan /\ tool = "get_defectdojo_findings")
        => \A i \in 1..Len(sent) :
               HasKey(sent[i].query, "severity")
                   => IsValidSeverity(QueryValue(sent[i].query, "severity"))

\* C3: every PATCH MarkFalsePositive sends carries false_p = true, whatever
\* the request's IsFalsePositive is.
C3_FalsePAlwaysTrue ==
    \A i \in 1..Len(sent) :
        sent[i].method = "PATCH" => sent[i].hasBody /\ sent[i].body.false_p = TRUE

\* a PATCH was sent for a request whose IsFalsePositive is false
C3_Witness ==
    /\ call.op = "MarkFalsePositive"
    /\ ~call.request.IsFalsePositive
    /\ Len(sent) = 1 /\ sent[1].method = "PATCH"

\* C4: the query GetFindings generates always holds limit and offset, and
\* holds active, severity, verified, test exactly when the filter sets
\* ActiveOnly, a non-empty Severity, Verified, Test.
C4_QueryKeys ==
    (call.op = "GetFindings" /\ sent # <<>>)
        => LET q == sent[1].query
               f == call.filter
           IN  /\ HasKey(q, "limit") /\ HasKey(q, "offset")
               /\ HasKey(q, "active") <=> f.ActiveOnly
               /\ HasKey(q, "severity") <=> f.Severity # <<>>
               /\ HasKey(q, "verified") <=> f.HasVerified
               /\ HasKey(q, "test") <=> f.HasTest
               /\ \A i \in 1..Len(q) : q[i][1] \in Range(QueryKeyOrder)

\* a query was generated for a filter that sets all the optional fields
C4_Witness ==
    /\ call.op = "GetFindings" /\ sent # <<>>
    /\ call.filter.ActiveOnly /\ call.filter.Severity # <<>>
    /\ call.filter.HasVerified /\ call.filter.HasTest

ResultOps == {"GetFindings", "GetFindingDetail", "MarkFalsePositive"}

\* an adapter operation has returned after an HTTP response arrived
GotResponse == pc = "done" /\ outcome.kind = "response"

\* the adapter operation reported a failure to its caller
AdapterFailed ==
    IF call.op = "HealthCheck" THEN ~adapterRet.healthy ELSE adapterRet.hasErr

C6_HealthCheckPair ==
    (pc = "done" /\ call.op = "HealthCheck")
        => /\ ~adapterRet.hasErr
           /\ adapterRet.message # <<>>
           /\ adapterRet.healthy
                  <=> (outcome.kind = "response" /\ outcome.status = StatusOK)
           /\ (outcome.kind = "response" /\ outcome.status # StatusOK)
                  => Contains(adapterRet.message, outcome.body.raw)

\* HealthCheck has answered a 500 response with a non-empty body
C6_Witness ==
    /\ GotResponse /\ call.op = "HealthCheck"
    /\ outcome.status = 500 /\ outcome.body.raw # <<>>
    /\ ~adapterRet.healthy

EndsWith(text, suf) ==
    /\ Len(suf) <= Len(text)
    /\ \A j \in 1..Len(suf) : text[Len(text) - Len(suf) + j] = suf[j]

\* C7: in every entry point the health handler returns an error-shaped
\* result holding the adapter's message when the adapter reports unhealthy,
\* and a text result made of a fixed text followed by the adapter's message
\* when it reports healthy.
C7_HealthResult ==
    (pc = "done" /\ entry \in EntryPoints /\ tool = "defectdojo_health_check")
        => IF adapterRet.healthy
           THEN /\ result.kind = "text"
                /\ Len(result.text) > Len(adapterRet.message)
                /\ EndsWith(result.text, adapterRet.message)
           ELSE /\ result.kind = "toolError"
                /\ Contains(result.text, adapterRet.message)

\* the exchange of the call failed: no response, a status other than 200,
\* or a body that does not decode
ExchangeFailed ==
    \/ outcome.kind = "transport"
    \/ outcome.kind = "response" /\ outcome.status # StatusOK
    \/ outcome.kind = "response" /\ call.op \in ResultOps /\ ~outcome.body.decodes

\* C8: a call of an adapter operation issues at most one HTTP request; after
\* a failed exchange the operation has returned the failure and has issued
\* no further request.
C8_SingleRequest ==
    /\ adapterCalls <= 1
    /\ Len(sent) <= adapterCalls
    /\ (pc = "done" /\ ExchangeFailed) => (Len(sent) = 1 /\ AdapterFailed)

\* a GetFindings call has returned after a transport failure
C8_Witness ==
    /\ pc = "done" /\ call.op = "GetFindings"
    /\ outcome.kind = "transport" /\ Len(sent) = 1 /\ adapterRet.hasErr

\* the handler returned before calling the adapter: a parameter validation
\* failure
ValidationFailed == pc = "done" /\ entry \in EntryPoints /\ adapterCalls = 0

\* C9: every tool handler returns a text result or an error-shaped tool
\* result, never a raw error; validation failures and adapter failures both
\* come back as an error-shaped tool result.
C9_ResultShape ==
    (pc = "done" /\ entry \in EntryPoints)
        => /\ result.kind \in {"text", "toolError"}
           /\ (ValidationFailed \/ AdapterFailed) => result.kind = "toolError"

\* the context of the call ended before a response arrived
Cancelled(out) ==
    /\ out.kind = "transport"
    /\ out.reason \in {"context canceled", "context deadline exceeded"}

\* C10: a call whose context is cancelled or times out before a response
\* arrives ends with a failure and no result, issues nothing more, and leaves
\* the adapter's configuration as it was.
C10_Step ==
    (pc = "waiting" /\ pc' = "done" /\ Cancelled(outcome'))
        => /\ cfg' = cfg
           /\ sent' = sent
           /\ ~adapterRet'.hasVal
           /\ IF call.op = "HealthCheck"
              THEN ~adapterRet'.healthy /\ adapterRet'.message # <<>>
              ELSE adapterRet'.hasErr

C10_CancelledCallFails == [][C10_Step]_vars

\* a MarkFalsePositive call has returned after its context was cancelled
C10_Witness ==
    /\ pc = "done" /\ call.op = "MarkFalsePositive"
    /\ outcome.kind = "transport" /\ outcome.reason = "context canceled"
    /\ adapterRet.hasErr

\* the result of an invocation that runs alone: its handler and the adapter
\* operation applied to its own arguments and to the outcome of its own
\* request, under configuration c
SoloResult(c, e, t, a, isMap, out) ==
    LET h == HandlerStart(e, t, a, isMap)
        b == AdapterRequest(c, h.call)
    IN  IF h.done THEN h.result
        ELSE IF ~b.ok THEN HandlerFinish(e, t, h.call, b.ret)
        ELSE HandlerFinish(e, t, h.call, AdapterFinish(c, h.call, b.req, out))

\* C11: in every interleaving of concurrent invocations a step changes only
\* the invocation that takes it and never the shared configuration, and
\* every finished invocation holds the result it would have produced alone
\* from its own arguments and the outcome of its own request.
C11_Step ==
    /\ cfg' = cfg
    /\ \A s, o \in Slots : (s # o /\ slots'[s] # slots[s]) => slots'[o] = slots[o]
    /\ \A s \in Slots :
           slots'[s].pc = "done"
               => slots'[s].result =
                      SoloResult(cfg', slots'[s].entry, slots'[s].tool,
                                 slots'[s].args, slots'[s].argsIsMap,
                                 slots'[s].outcome)

C11_NoSharedMutation == [][C11_Step]_vars

\* two invocations of different tools were in progress at the same time and
\* both have returned a text result
C11_Witness ==
    /\ slots[1].pc = "done" /\ slots[1].tool = "get_defectdojo_findings"
    /\ slots[1].outcome.kind = "response" /\ slots[1].result.kind = "text"
    /\ slots[2].pc = "done" /\ slots[2].tool = "mark_finding_false_positive"
    /\ slots[2].outcome.kind = "response" /\ slots[2].result.kind = "text"

\* C12: every request the adapter sends sets Accept and Content-Type to
\* application/json, and carries Authorization: Token <key> exactly when the
\* configured API key is not empty.
C12_Headers ==
    \A i \in 1..Len(sent) :
        LET h == sent[i].headers
        IN  /\ "Accept" \in DOMAIN h /\ h["Accept"] = AppJSON
            /\ "Content-Type" \in DOMAIN h /\ h["Content-Type"] = AppJSON
            /\ "Authorization" \in DOMAIN h <=> cfg.APIKey # <<>>
            /\ "Authorization" \in DOMAIN h
                   => h["Authorization"] = L("Token ") \o cfg.APIKey

\* a PATCH was sent by an adapter that is configured with an API key
C12_Witness ==
    /\ cfg.APIKey = SampleAPIKey
    /\ Len(sent) = 1 /\ sent[1].method = "PATCH"
    /\ "Authorization" \in DOMAIN sent[1].headers

\* the invocation names a finding by a positive whole number
FindingIdGiven ==
    /\ argsIsMap
    /\ args.finding_id.t = "float64"
    /\ args.finding_id.n > 0 /\ args.finding_id.d = 1

\* the handler called MarkFalsePositive with justification j, and every
\* request that went out carries j
JustificationSent(j) ==
    /\ call.op = "MarkFalsePositive"
    /\ call.request.Justification = j
    /\ \A i \in 1..Len(sent) : sent[i].body.justification = j

\* C13: in every entry point the mark_finding_false_positive handler accepts
\* an invocation without a justification and sends the fixed generic
\* justification, and sends a supplied non-empty justification unchanged.
C13_JustificationDefaulted ==
    (HandlerRan /\ tool = "mark_finding_false_positive" /\ FindingIdGiven)
        => /\ args.justification.t = "absent"
                  => JustificationSent(DefaultJustification)
           /\ (args.justification.t = "string" /\ args.justification.s # <<>>)
                  => JustificationSent(args.justification.s)

\* a mark_finding_false_positive invocation has succeeded
MarkSucceeded ==
    /\ pc = "done" /\ entry \in EntryPoints
    /\ tool = "mark_finding_false_positive"
    /\ call.op = "MarkFalsePositive" /\ adapterRet.hasVal

\* C14: the confirmation text of a successful mark_finding_false_positive
\* invocation holds the justification that was sent upstream and, when notes
\* were supplied, the notes.
C14_ConfirmationEchoes ==
    MarkSucceeded
        => /\ result.kind = "text"
           /\ Contains(result.text, call.request.Justification)
           /\ call.request.Notes # <<>>
                  => Contains(result.text, call.request.Notes)

\* MarkFalsePositive has returned a result
MarkReturned ==
    pc = "done" /\ call.op = "MarkFalsePositive" /\ adapterRet.hasVal

FixedConfirmation == L("Finding successfully marked as false positive")

ListSent ==
    /\ HandlerRan /\ tool = "get_defectdojo_findings"
    /\ argsIsMap /\ Len(sent) = 1

\* C16: in every entry point the query of get_defectdojo_findings carries
\* verified=true or verified=false when the argument is that boolean, and no
\* verified parameter when the argument is absent.
C16_VerifiedTriState ==
    ListSent
        => LET q == sent[1].query
           IN  /\ args.verified.t = "bool"
                      => /\ HasKey(q, "verified")
                         /\ QueryValue(q, "verified") = FormatBool(args.verified.b)
               /\ args.verified.t = "absent" => ~HasKey(q, "verified")

\* the limit an entry point takes when the argument is absent
DefaultLimit(e) == IF e = "internal" THEN 20 ELSE 10

\* the list handler has called GetFindings
ListCalled ==
    /\ HandlerRan /\ tool = "get_defectdojo_findings"
    /\ call.op = "GetFindings"

\* C17: the filter the list handler passes to the adapter has the entry
\* point's default limit (20 for internal/server, 10 for the other two),
\* offset 0 and active_only true when the argument is absent; a numeric
\* limit or offset and a boolean active_only replace exactly their own
\* field, and severity, verified and test stay unset when absent.
C17_FilterDefaults ==
    ListCalled
        => LET a == GetArguments(args, argsIsMap)
               f == call.filter
           IN  /\ a.limit.t = "absent" => f.Limit = DefaultLimit(entry)
               /\ a.limit.t = "float64" => f.Limit = Trunc(a.limit)
               /\ a.offset.t = "absent" => f.Offset = 0
               /\ a.offset.t = "float64" => f.Offset = Trunc(a.offset)
               /\ a.active_only.t = "absent" => f.ActiveOnly
               /\ a.active_only.t = "bool" => f.ActiveOnly = a.active_only.b
               /\ a.severity.t = "absent" => f.Severity = <<>>
               /\ a.verified.t = "absent" => ~f.HasVerified
               /\ a.test.t = "absent" => ~f.HasTest

\* pkg/mcpserver's list handler was invoked with an offset only and called
\* GetFindings with its default limit of 10
C17_Witness ==
    /\ ListCalled /\ entry = "pkg" /\ argsIsMap
    /\ args.limit.t = "absent" /\ args.offset = Num(3)
    /\ args.active_only.t = "absent"
    /\ call.filter.Limit = 10 /\ call.filter.Offset = 3
    /\ call.filter.ActiveOnly

\* C18: through every entry point and for any limit and offset arguments,
\* negative numbers included, the limit and offset of the query sent
\* upstream are non-negative integers.
C18_PaginationNonNegative ==
    (HandlerRan /\ tool = "get_defectdojo_findings")
        => \A i \in 1..Len(sent) :
               LET q == sent[i].query
               IN  /\ HasKey(q, "limit") /\ HasKey(q, "offset")
                   /\ Atoi(QueryValue(q, "limit")).ok
                   /\ Atoi(QueryValue(q, "limit")).n >= 0
                   /\ Atoi(QueryValue(q, "offset")).ok
                   /\ Atoi(QueryValue(q, "offset")).n >= 0

\* the list handler has returned the text it formats from a page
ListSucceeded ==
    /\ pc = "done" /\ entry \in EntryPoints
    /\ tool = "get_defectdojo_findings"
    /\ adapterRet.hasVal /\ result.kind = "text"

\* the note that tells the caller that more results exist
MoreResultsNote ==
    L("Note: More results available. Use 'offset' parameter to paginate.\n")

\* the place where sub first occurs in text, 0 when it does not occur
Position(text, sub) ==
    IF Contains(text, sub)
    THEN 1 + CHOOSE i \in 0..(Len(text) - Len(sub)) :
                 /\ \A j \in 1..Len(sub) : text[i + j] = sub[j]
                 /\ \A k \in 0..(i - 1) :
                        \E j \in 1..Len(sub) : text[k + j] # sub[j]
    ELSE 0

\* C19: in every entry point the list handler's text lists the first 10
\* findings of the page at most, in the order of the response, and ends with
\* a note exactly when a next page exists.
C19_ListedAndNote ==
    ListSucceeded
        => LET page == adapterRet.findings
               shown == IF Len(page.Results) < DisplayLimit
                        THEN Len(page.Results) ELSE DisplayLimit
           IN  /\ \A i \in 1..Len(page.Results) :
                      Contains(result.text, page.Results[i].Title) <=> i <= shown
               /\ \A i, j \in 1..shown :
                      i < j => Position(result.text, page.Results[i].Title)
                                   < Position(result.text, page.Results[j].Title)
               /\ EndsWith(result.text, MoreResultsNote) <=> page.HasNext

\* the line that opens the entry of the i-th finding of the page
NumberedLine(i, finding) ==
    Itoa(i) \o L(". [") \o finding.Severity \o L("] ") \o finding.Title

\* C20: for a page with total count C and N findings the list handler's text
\* begins "Found C findings (showing N):" and goes on with one entry per
\* finding, numbered 1..N in the order of the response.
C20_HeaderAndNumbering ==
    ListSucceeded
        => LET page == adapterRet.findings
               n == Len(page.Results)
           IN  /\ StartsWith(result.text,
                      L("Found ") \o Itoa(page.Count) \o L(" findings (showing ")
                      \o Itoa(n) \o L("):\n\n"))
               /\ \A i \in 1..n :
                      Contains(result.text, NumberedLine(i, page.Results[i]))
               /\ \A i, j \in 1..n :
                      i < j => Position(result.text, NumberedLine(i, page.Results[i]))
                                   < Position(result.text,
                                              NumberedLine(j, page.Results[j]))

\* the remote service answered a get_finding_detail request with a status
\* other than 200
DetailRefused ==
    /\ pc = "done" /\ entry \in EntryPoints /\ tool = "get_finding_detail"
    /\ call.op = "GetFindingDetail"
    /\ outcome.kind = "response" /\ outcome.status # StatusOK

\* C21: when the remote service answers a get_finding_detail request for
\* finding F with a status S other than 200, the handler returns an error
\* (an error-shaped result in internal/server and cmd/mcp-server, a Go error
\* in pkg/mcpserver) whose text names the finding id F and the status S.
C21_ErrorNamesStatusAndId ==
    DetailRefused
        => /\ result.kind = IF entry = "pkg" THEN "rawError" ELSE "toolError"
           /\ Contains(result.text, Itoa(call.findingID) \o L(": "))
           /\ Contains(result.text,
                       L("API request failed with status ") \o Itoa(outcome.status))

\* internal/server's detail handler has answered a 404 for finding MaxId
C21_Witness ==
    /\ DetailRefused /\ entry = "internal"
    /\ outcome.status = 404 /\ call.findingID = MaxId
    /\ result.kind = "toolError"

\* C22: IsValidSeverity returns true for exactly the five strings Info, Low,
\* Medium, High, Critical, and false for every other string, the empty one
\* and case variants included; ValidSeverities returns the five in that
\* order.
C22_SeverityValidation ==
    /\ probe.fn = "IsValidSeverity"
           => (probe.out
                   <=> probe.arg \in {<<"I", "n", "f", "o">>, <<"L", "o", "w">>,
                                       <<"M", "e", "d", "i", "u", "m">>,
                                       <<"H", "i", "g", "h">>,
                                       <<"C", "r", "i", "t", "i", "c", "a", "l">>})
    /\ probe.fn = "ValidSeverities"
           => probe.out = <<SeverityInfo, SeverityLow, SeverityMedium,
                            SeverityHigh, SeverityCritical>>

\* IsValidSeverity has turned down the case variant CRITICAL
C22_Witness ==
    /\ probe.fn = "IsValidSeverity"
    /\ probe.arg = <<"C", "R", "I", "T", "I", "C", "A", "L">>
    /\ probe.out = FALSE

\* the value of the probe is a round trip through JSON
IsRoundTrip == probe.fn \in {"FindingRoundTrip", "RequestRoundTrip"}

\* the strings of the value that went through the round trip
ProbeStrings ==
    IF probe.fn = "FindingRoundTrip"
    THEN {probe.arg.Title, probe.arg.Severity, probe.arg.Description,
          probe.arg.Created, probe.arg.Modified}
    ELSE {probe.arg.Justification, probe.arg.Notes}

\* C23 as stated: for every Finding and every FalsePositiveRequest, encoding
\* to JSON and decoding back yields a value equal to the original in every
\* field.
C23_RoundTripEveryValue ==
    IsRoundTrip => ~probe.out.err /\ probe.out.v = probe.arg

\* C23: for every Finding and every FalsePositiveRequest whose strings are
\* valid UTF-8 (control characters, markup characters, non-ASCII text, the
\* all-zero value and IsFalsePositive = false included), encoding to JSON and
\* decoding back yields a value equal to the original in every field; the
\* decoding never fails.
C23_RoundTripValidText ==
    IsRoundTrip
        => /\ ~probe.out.err
           /\ (\A s \in ProbeStrings : ValidUTF8(s)) => probe.out.v = probe.arg

\* a Finding whose title holds control characters and whose description
\* holds markup has come back equal from the round trip
C23_Witness ==
    /\ probe.fn = "FindingRoundTrip"
    /\ \E i \in 1..Len(probe.arg.Title) : probe.arg.Title[i] = CtlSOH
    /\ \E i \in 1..Len(probe.arg.Description) : probe.arg.Description[i] = "<"
    /\ probe.out.v = probe.arg
    /\ ~probe.out.err

\* C24: GetAPIBasePath returns "/api/" followed by the configured API version
\* for every non-empty version, and "/api/v2" when the configured version is
\* empty.
C24_APIBasePathDefaultsToV2 ==
    probe.fn = "GetAPIBasePath"
        => probe.out = IF probe.arg = <<>> THEN <<"/api/", "v2">>
                       ELSE <<"/api/">> \o probe.arg

\* the value of an environment variable, or the default when it is empty
EnvOr(key, default) == IF probe.arg[key] # <<>> THEN probe.arg[key] ELSE default

C26_EmptySettingsFallBack ==
    probe.fn = "NewServerWithSettings"
        => /\ probe.out.ddClient.config.BaseURL
                  = IF probe.arg.BaseURL = <<>> THEN <<"http://localhost:8080">>
                    ELSE probe.arg.BaseURL
           /\ probe.out.ddClient.config.APIVersion
                  = IF probe.arg.APIVersion = <<>> THEN <<"v2">>
                    ELSE probe.arg.APIVersion

\* C27: a server built by NewServer from a Config whose RequestTimeout is zero
\* uses the default timeout of 30 seconds, a non-zero RequestTimeout is used
\* as given, and so the timeout of the adapter's requests is always positive.
C27_TimeoutPositive ==
    probe.fn = "NewServer" /\ ~probe.arg.isNil
        => /\ probe.out.ddClient.Timeout > 0
           /\ probe.out.ddClient.Timeout
                  = IF probe.arg.DefectDojo.RequestTimeout = 0 THEN 30
                    ELSE probe.arg.DefectDojo.RequestTimeout

\* the cases in which C29 says an id is accepted: an int greater than 0, a
\* string that parses as a decimal integer greater than 0, a float64 whose
\* truncation toward zero is at least 1
IdAccepted(v) ==
    \/ v.t = "int" /\ v.n > 0
    \/ v.t = "string" /\ Atoi(v.s).ok /\ Atoi(v.s).n > 0
    \/ v.t = "float64" /\ v.n > 0 /\ (v.d = 0 \/ v.n >= v.d)

\* C29: extractFindingID never returns a negative number, and returns a
\* positive id exactly when finding_id is an int greater than 0, a string
\* that parses as a decimal integer greater than 0, or a float64 whose
\* truncation toward zero is at least 1; everything else yields 0.
C29_ExtractedIdNeverNegative ==
    probe.fn = "extractFindingID"
        => /\ probe.out >= 0
           /\ probe.out > 0 <=> IdAccepted(probe.arg)

\* the same statement, for the values of finding_id that lie within the
\* range of int
ExtractedIdInRange ==
    probe.fn = "extractFindingID" /\ ~(probe.arg.t = "float64" /\ probe.arg.d = 0)
        => /\ probe.out >= 0
           /\ probe.out > 0 <=> IdAccepted(probe.arg)

\* the members of the PATCH body the probe holds, as the remote service
\* decodes them
BodyMembers == ParseObject(probe.out).members

\* C30: the JSON body of the PATCH sent by MarkFalsePositive has exactly the
\* keys false_p and justification, plus notes if and only if the request's
\* Notes is non-empty; justification is always present, as an empty string
\* when the request's Justification is empty; false_p is true and the
\* request's justification and notes are sent unchanged.
C30_PatchBodyKeys ==
    probe.fn = "MarkFalsePositiveBody"
        => /\ ParseObject(probe.out).ok
           /\ { BodyMembers[i].key : i \in DOMAIN BodyMembers }
                  = {<<"f", "a", "l", "s", "e", "_", "p">>, <<"j", "u", "s", "t", "i", "f", "i", "c", "a", "t", "i", "o", "n">>}
                    \cup (IF probe.arg.Notes # <<>> THEN {<<"n", "o", "t", "e", "s">>} ELSE {})
           /\ Len(BodyMembers) = IF probe.arg.Notes # <<>> THEN 3 ELSE 2
           /\ LastMember(BodyMembers, <<"f", "a", "l", "s", "e", "_", "p">>).kind = "bool"
           /\ LastMember(BodyMembers, <<"f", "a", "l", "s", "e", "_", "p">>).b = TRUE
           /\ LastMember(BodyMembers, <<"j", "u", "s", "t", "i", "f", "i", "c", "a", "t", "i", "o", "n">>).kind = "string"
           /\ LastMember(BodyMembers, <<"j", "u", "s", "t", "i", "f", "i", "c", "a", "t", "i", "o", "n">>).s = probe.arg.Justification
           /\ probe.arg.Notes # <<>>
                  => /\ LastMember(BodyMembers, <<"n", "o", "t", "e", "s">>).kind = "string"
                     /\ LastMember(BodyMembers, <<"n", "o", "t", "e", "s">>).s = probe.arg.Notes

\* a body was written for a request with an empty justification, no notes
\* and IsFalsePositive = false
C30_Witness ==
    /\ probe.fn = "MarkFalsePositiveBody"
    /\ probe.arg = ZeroFalsePositiveRequest
    /\ Len(BodyMembers) = 2

\* C28: Server.Run(ctx) and MCPServer.ServeStdio(ctx) honour the context they
\* are given: once ctx is cancelled or its deadline has passed while the call
\* is serving, the call eventually returns.
C28_ContextEndsServing ==
    (srv.state = "serving" /\ srv.ctx # "live") ~> (srv.state = "returned")

====
